---- MODULE Spec2Model ----
(***************************************************************************)
(* Model of the browser session controller of nexus                        *)
(* (src/nexus/src-tauri/src/browser.rs, BrowserManager).                   *)
(*                                                                         *)
(* The controller owns one tokio Mutex<Option<Page>> (current_page).       *)
(* Every public method is an async fn run by some task (the agent's tool   *)
(* call, or a UI command).  A task is a position (pc) in the method it     *)
(* runs plus that method's locals.  Every remote call (a CDP round trip to *)
(* the browser) is one step whose outcome the browser decides: it answers  *)
(* Ok or Err after some latency, or it never answers.  Calls wrapped in    *)
(* tokio::time::timeout are cut at the budget; calls that are not wrapped  *)
(* block the task for as long as the browser does not answer.              *)
(*                                                                         *)
(* Time is the time elapsed inside the timeout scope of the running        *)
(* method, in milliseconds.                                                *)
(*                                                                         *)
(* Further sections model the memory store (memory.rs) with the tools and  *)
(* commands that use it, content shaping (agent.rs, process_content), the  *)
(* scroll delta (browser.rs, scroll_page) and the agent's tools            *)
(* (agent.rs).  Each has its own specification; the variables of the       *)
(* parts a specification does not exercise stay at their initial values.   *)
(***************************************************************************)
EXTENDS Integers, FiniteSets, Sequences, TLC

(* ---------------- program constants (browser.rs) ---------------------- *)
NavTimeoutMs == 30000
ActionTimeoutMs == 30000
ScrollTimeoutMs == 10000
WaitTimeoutMs == 5000
PollSleepMs == 200

(* ---------------- bounds of the model --------------------------------- *)
\* remote pages the browser may create in one run
MaxPages == 2
\* latency of a remote call that answers quickly, in ms
FastMs == 0
\* latency of a remote call that answers slowly, in ms
SlowMs == 12000

\* the tasks that call the controller: the agent's tool call in flight
\* (agent.rs, one at a time) and a command of the surrounding application
\* (commands.rs: fetch_and_search, take_screenshot, get_current_url,
\* reset_session)
Callers == {"agent", "ui"}
NoCaller == "nobody"
NoPage == 0
Pages == 1..(MaxPages + 1)
Latencies == {FastMs, SlowMs}

Operations ==
  {"navigate", "read", "click", "type", "scroll", "upload", "reset",
   "get_current_url", "take_screenshot"}

VARIABLES
  current_page,  \* BrowserManager.current_page: a page or NoPage
  lock,          \* holder of the tokio Mutex around current_page
  opened,        \* remote pages the browser has created
  closeIssued,   \* remote pages on which Page::close was called
  nextPage,      \* id the browser gives the next page it creates
  installed,     \* pages that have been current_page at some time
  op,            \* per task: the method it runs
  pc,            \* per task: its position in that method
  elapsed,       \* per task: ms elapsed in the method's timeout scope
  calls,         \* per task: remote calls the method has issued
  page,          \* per task: local `page` / `page_clone`
  old,           \* per task: local `old_page` / `page` taken from the guard
  acted,         \* per task: the method's remote action took effect
  content,       \* per task: content read: "none", "before" or "after"
                 \*           the method's own action
  result,        \* per task: what the method returned
  prevTimedOut,  \* per task: its previous call was a navigate that
                 \*           returned the timeout error
  closeResult    \* per task: what page.close() answered: "none", "Ok", "Err"

shared == <<current_page, lock, opened, closeIssued, nextPage, installed>>

\* the session controller (browser.rs) and the tasks inside it
browserVars == <<current_page, lock, opened, closeIssued, nextPage, installed,
                 op, pc, elapsed, calls, page, old, acted, content, result,
                 prevTimedOut, closeResult>>

VARIABLES
  entries,       \* Memory.entries: the notes, in insertion order
  memLock,       \* holder of the std Mutex around the Memory
  memInit,       \* GLOBAL_MEMORY has been set
  memPoisoned,   \* the Mutex is poisoned: lock() returns Err
  log,           \* history: the notes added since the last clear
  wiped,         \* history: a clear has emptied a store that held notes,
                 \*          and no note has been added since
  mpc,           \* per task: its position in a memory tool or command
  mcall,         \* per task: the memory tool or command and its arguments
  mres,          \* per task: what the store returned to it
  events,        \* types of the events the running tool has emitted
  toolResult     \* what the tool returned: "none", "success" or "error"

\* the memory store (memory.rs) and the tasks inside it
memoryVars ==
  <<entries, memLock, memInit, memPoisoned, log, wiped, mpc, mcall, mres>>

\* the tool layer of the agent (agent.rs)
toolVars == <<events, toolResult>>

VARIABLES
  md,            \* process_content: the text the renderer produced
  shaped,        \* process_content: the text it returned
  direction,     \* scroll_page: its direction argument
  amount,        \* scroll_page: its amount argument, an Option<i32>
  delta,         \* scroll_page: the delta it passed to window.scrollBy
  haystack,      \* search_content: its content argument
  needle,        \* search_content: its query argument
  matched        \* search_content: what it returned

\* inputs and outputs of the pure parts of the tools
pureVars == <<md, shaped, direction, amount, delta, haystack, needle, matched>>

VARIABLES
  browserInit,   \* GLOBAL_BROWSER has been set
  tpc,           \* position of the agent in the browser tool it runs
  tool,          \* the browser tool the agent runs
  pattern,       \* find_in_page: its query is a "valid" or an "invalid"
                 \*               pattern for the matcher
  converted,     \* what htmd's convert answered for the page's html:
                 \*   "none", "Ok" or "Err"
  toolText       \* the text the tool goes on with: "none", "markdown",
                 \*   "placeholder" (Conversion failed: ..) or "empty"

\* the browser tools of the agent (agent.rs)
dispatchVars == <<browserInit, tpc, tool, pattern, converted, toolText>>

VARIABLES
  rpc,           \* position of run_agent_loop: "idle", "setup", "running",
                 \*                             "returned"
  workerRuns,    \* worker.run calls made by this run
  report,        \* the NexusReport the model emitted, an Option
  runResult      \* what run_agent_loop returned

\* one run of the agent (agent.rs)
agentVars == <<rpc, workerRuns, report, runResult>>

VARIABLES
  spc,           \* position of the application in reset_session
  traceLock,     \* holder of the tokio Mutex around the TraceStore
  traceOp,       \* what the holder does under it: "none", "record", "reset"
  traceStore,    \* the TraceStore: its session_id and its events
  nextUuid,      \* the next value Uuid::new_v4() gives for a session
  recorded,      \* history: records made since the last reset
  dropped        \* history: a trace was dropped because try_lock failed

\* reset_session (commands.rs) and the flight recorder (tracing.rs)
sessionVars ==
  <<spc, traceLock, traceOp, traceStore, nextUuid, recorded, dropped>>

\* everything outside the session controller
outside ==
  <<memoryVars, toolVars, pureVars, dispatchVars, agentVars, sessionVars>>

\* everything a step of the controller leaves alone unless it calls close
others == <<outside, closeResult>>

vars == <<browserVars, others>>

(* ---------------- helpers --------------------------------------------- *)

\* mutant: scroll is given the budget of the other actions
BudgetUniform(o) == ActionTimeoutMs

\* budget of the tokio::time::timeout that wraps the method's remote work
Budget(o) ==
  CASE o = "navigate" -> NavTimeoutMs
    [] o = "scroll" -> ScrollTimeoutMs
    [] OTHER -> ActionTimeoutMs

\* the remote call started now never answers, or answers after the budget:
\* the timeout future completes first
Expires(c, hangs, d) == hangs \/ elapsed[c] + d > Budget(op[c])

\* mutant: the guard is leaked, the lock is never released
ReleasedNever(c) == lock

\* the MutexGuard is dropped when the method returns
Released(c) == IF lock = c THEN NoCaller ELSE lock

\* the method returns r to its caller
Return(c, r) ==
  /\ pc' = [pc EXCEPT ![c] = "done"]
  /\ result' = [result EXCEPT ![c] = r]
  /\ lock' = Released(c)

\* timeout(...) returned Err(Elapsed): the pending future is dropped
ReturnTimedOut(c) ==
  /\ Return(c, "TimedOut")
  /\ elapsed' = [elapsed EXCEPT ![c] = Budget(op[c])]

Issue(c) == calls' = [calls EXCEPT ![c] = @ + 1]

TypeOK ==
  /\ current_page \in Pages \cup {NoPage}
  /\ lock \in Callers \cup {NoCaller}
  /\ opened \subseteq Pages
  /\ closeIssued \subseteq opened
  /\ nextPage \in Pages
  /\ installed \subseteq opened
  /\ op \in [Callers -> Operations \cup {"none"}]
  /\ page \in [Callers -> Pages \cup {NoPage}]
  /\ old \in [Callers -> Pages \cup {NoPage}]
  /\ acted \in [Callers -> BOOLEAN]
  /\ content \in [Callers -> {"none", "before", "after"}]
  /\ prevTimedOut \in [Callers -> BOOLEAN]
  /\ closeResult \in [Callers -> {"none", "Ok", "Err"}]

(* ---------------- initial state: BrowserManager::new ------------------- *)
BrowserInit ==
  /\ current_page = NoPage
  /\ lock = NoCaller
  /\ opened = {}
  /\ closeIssued = {}
  /\ nextPage = 1
  /\ installed = {}
  /\ op = [c \in Callers |-> "none"]
  /\ pc = [c \in Callers |-> "idle"]
  /\ elapsed = [c \in Callers |-> 0]
  /\ calls = [c \in Callers |-> 0]
  /\ page = [c \in Callers |-> NoPage]
  /\ old = [c \in Callers |-> NoPage]
  /\ acted = [c \in Callers |-> FALSE]
  /\ content = [c \in Callers |-> "none"]
  /\ result = [c \in Callers |-> "none"]
  /\ prevTimedOut = [c \in Callers |-> FALSE]
  /\ closeResult = [c \in Callers |-> "none"]

(* ---------------- initial state: init_memory, no tool running ---------- *)
\* Option<T>: None is the empty sequence, Some(x) the sequence of x alone
None == <<>>
Some(x) == <<x>>

NoCall == [kind |-> "none", note |-> <<>>, tags |-> None, query |-> None]
NoResult == [status |-> "none", route |-> "none", notes |-> <<>>]

\* Memory::new(), and no tool or command inside the store
StoreEmpty ==
  /\ entries = <<>>
  /\ memLock = NoCaller
  /\ log = <<>>
  /\ wiped = FALSE
  /\ mpc = [c \in Callers |-> "idle"]
  /\ mcall = [c \in Callers |-> NoCall]
  /\ mres = [c \in Callers |-> NoResult]

\* lib.rs setup has run: GLOBAL_MEMORY holds an empty Memory
MemoryInit ==
  /\ StoreEmpty
  /\ memInit = TRUE
  /\ memPoisoned = FALSE

\* no tool is running
NoToolRunning ==
  /\ events = <<>>
  /\ toolResult = "none"
  /\ tpc = "idle"
  /\ tool = "none"
  /\ pattern = "none"
  /\ converted = "none"
  /\ toolText = "none"

\* lib.rs setup has run: GLOBAL_BROWSER holds the BrowserManager
ToolInit ==
  /\ NoToolRunning
  /\ browserInit = TRUE

NotShaped == [status |-> "none", text |-> <<>>, marker |-> None]
NoDelta == [status |-> "none", value |-> 0]

\* no page content has been shaped
ShapeIdle == md = <<>> /\ shaped = NotShaped

\* no scroll has been computed
ScrollIdle == direction = "down" /\ amount = None /\ delta = NoDelta

NotSearched == [status |-> "none", matches |-> <<>>]

\* no text has been searched
SearchIdle == haystack = <<>> /\ needle = <<>> /\ matched = NotSearched

PureInit == ShapeIdle /\ ScrollIdle /\ SearchIdle

NoOutcome == [status |-> "none", text |-> "none"]

\* no run of the agent has been started
AgentIdle ==
  /\ rpc = "idle"
  /\ workerRuns = 0
  /\ report = None
  /\ runResult = NoOutcome

\* TraceStore::new(): a fresh session id and no events; nobody holds the
\* store and reset_session is not running
SessionIdle ==
  /\ spc = "idle"
  /\ traceLock = NoCaller
  /\ traceOp = "none"
  /\ traceStore = [session_id |-> 1, events |-> <<>>]
  /\ nextUuid = 2
  /\ recorded = 0
  /\ dropped = FALSE

\* the application after lib.rs setup
Init ==
  BrowserInit /\ MemoryInit /\ ToolInit /\ PureInit /\ AgentIdle /\ SessionIdle

(* ---------------- a task calls a method -------------------------------- *)
\* navigate_and_get_content starts its remote work at once; every other
\* method first awaits current_page.lock()
Call(c, o) ==
  /\ pc[c] = "idle"
  /\ o = "navigate" =>
       nextPage + Cardinality({x \in Callers : pc[x] = "nav_new_page"})
         <= MaxPages
  /\ op' = [op EXCEPT ![c] = o]
  /\ pc' = [pc EXCEPT ![c] = IF o = "navigate" THEN "nav_new_page" ELSE "lock"]
  /\ UNCHANGED <<others, shared, elapsed, calls, page, old, acted, content, result,
                 prevTimedOut>>

\* the caller has the result; the method's locals are gone
Finish(c) ==
  /\ pc[c] = "done"
  /\ pc' = [pc EXCEPT ![c] = "idle"]
  /\ prevTimedOut' = [prevTimedOut EXCEPT
                        ![c] = (op[c] = "navigate" /\ result[c] = "TimedOut")]
  /\ op' = [op EXCEPT ![c] = "none"]
  /\ elapsed' = [elapsed EXCEPT ![c] = 0]
  /\ calls' = [calls EXCEPT ![c] = 0]
  /\ page' = [page EXCEPT ![c] = NoPage]
  /\ old' = [old EXCEPT ![c] = NoPage]
  /\ acted' = [acted EXCEPT ![c] = FALSE]
  /\ content' = [content EXCEPT ![c] = "none"]
  /\ result' = [result EXCEPT ![c] = "none"]
  /\ closeResult' = [closeResult EXCEPT ![c] = "none"]
  /\ UNCHANGED <<shared, outside>>

(* ---------------- navigate_and_get_content ----------------------------- *)
\* the three remote calls run inside timeout(30 s) and WITHOUT the lock;
\* the lock is taken only in the Ok(Ok(..)) arm

Advance(c, d) == elapsed' = [elapsed EXCEPT ![c] = @ + d]

\* the browser may or may not have created the target of a new_page call
\* that failed or was abandoned
MaybeCreated ==
  \E created \in BOOLEAN :
    /\ opened' = IF created THEN opened \cup {nextPage} ELSE opened
    /\ nextPage' = IF created THEN nextPage + 1 ELSE nextPage

\* self.browser.new_page(url).await?
NewPageCall(c, L) ==
  /\ pc[c] = "nav_new_page"
  /\ Issue(c)
  /\ \E hangs \in BOOLEAN, d \in L :
       IF Expires(c, hangs, d)
       THEN /\ ReturnTimedOut(c)
            /\ MaybeCreated
            /\ UNCHANGED page
       ELSE /\ Advance(c, d)
            /\ \E ok \in BOOLEAN :
                 IF ok
                 THEN /\ page' = [page EXCEPT ![c] = nextPage]
                      /\ opened' = opened \cup {nextPage}
                      /\ nextPage' = nextPage + 1
                      /\ pc' = [pc EXCEPT ![c] = "nav_wait"]
                      /\ UNCHANGED <<result, lock>>
                 ELSE /\ Return(c, "RemoteError")
                      /\ MaybeCreated
                      /\ UNCHANGED page
  /\ UNCHANGED <<others, installed, closeIssued, op, old, acted, content,
                 prevTimedOut>>

\* mutant: the session's page is dropped before the new one is loaded
NavNewPageDroppingPage(c, L) == NewPageCall(c, L) /\ current_page' = NoPage

\* navigate_and_get_content up to the first await: current_page is not
\* touched
NavNewPage(c, L) == NewPageCall(c, L) /\ UNCHANGED current_page

\* page.wait_for_navigation().await?
NavWait(c, L) ==
  /\ pc[c] = "nav_wait"
  /\ Issue(c)
  /\ \E hangs \in BOOLEAN, d \in L :
       IF Expires(c, hangs, d)
       THEN ReturnTimedOut(c)
       ELSE /\ Advance(c, d)
            /\ \E ok \in BOOLEAN :
                 IF ok
                 THEN /\ pc' = [pc EXCEPT ![c] = "nav_content"]
                      /\ UNCHANGED <<result, lock>>
                 ELSE Return(c, "RemoteError")
  /\ UNCHANGED <<others, installed, current_page, opened, closeIssued, nextPage, op, page, old,
                 acted, content, prevTimedOut>>

\* page.content().await?  then Ok((page, content)) leaves the timeout scope
NavContent(c, L) ==
  /\ pc[c] = "nav_content"
  /\ Issue(c)
  /\ \E hangs \in BOOLEAN, d \in L :
       IF Expires(c, hangs, d)
       THEN ReturnTimedOut(c) /\ UNCHANGED content
       ELSE /\ Advance(c, d)
            /\ \E ok \in BOOLEAN :
                 IF ok
                 THEN /\ content' = [content EXCEPT ![c] = "before"]
                      /\ pc' = [pc EXCEPT ![c] = "nav_lock"]
                      /\ UNCHANGED <<result, lock>>
                 ELSE Return(c, "RemoteError") /\ UNCHANGED content
  /\ UNCHANGED <<others, installed, current_page, opened, closeIssued, nextPage, op, page, old,
                 acted, prevTimedOut>>

\* mutant: navigate swaps the page without waiting for the lock
NavLockBarging(c) ==
  /\ pc[c] = "nav_lock"
  /\ lock' = c
  /\ old' = [old EXCEPT ![c] = current_page]
  /\ current_page' = NoPage
  /\ pc' = [pc EXCEPT ![c] = IF current_page = NoPage THEN "nav_install"
                                                        ELSE "nav_close"]
  /\ UNCHANGED <<others, installed, opened, closeIssued, nextPage, op, elapsed, calls, page,
                 acted, content, result, prevTimedOut>>

\* mutant: navigate takes the previous page out under one hold of the lock
\* and installs the new page under a later one
NavLockReleasing(c) ==
  /\ pc[c] = "nav_lock"
  /\ lock = NoCaller
  /\ lock' = NoCaller
  /\ old' = [old EXCEPT ![c] = current_page]
  /\ current_page' = NoPage
  /\ pc' = [pc EXCEPT ![c] = IF current_page = NoPage THEN "nav_install"
                                                        ELSE "nav_close"]
  /\ UNCHANGED <<others, installed, opened, closeIssued, nextPage, op, elapsed, calls, page,
                 acted, content, result, prevTimedOut>>

\* let mut guard = self.current_page.lock().await; guard.take()
NavLock(c) ==
  /\ pc[c] = "nav_lock"
  /\ lock = NoCaller
  /\ lock' = c
  /\ old' = [old EXCEPT ![c] = current_page]
  /\ current_page' = NoPage
  /\ pc' = [pc EXCEPT ![c] = IF current_page = NoPage THEN "nav_install"
                                                        ELSE "nav_close"]
  /\ UNCHANGED <<others, installed, opened, closeIssued, nextPage, op, elapsed, calls, page,
                 acted, content, result, prevTimedOut>>

\* mutant: the previous page is dropped without close being called
NavCloseSkipped(c) ==
  /\ pc[c] = "nav_close"
  /\ pc' = [pc EXCEPT ![c] = "nav_install"]
  /\ UNCHANGED <<others, shared, op, elapsed, calls, page, old, acted, content,
                 result, prevTimedOut>>

\* mutant: navigate returns the error of a close that failed (close()?)
NavCloseChecked(c) ==
  /\ pc[c] = "nav_close"
  /\ Issue(c)
  /\ closeIssued' = closeIssued \cup {old[c]}
  /\ \E hangs \in BOOLEAN :
       IF hangs
       THEN /\ pc' = [pc EXCEPT ![c] = "blocked"]
            /\ UNCHANGED <<closeResult, lock, result>>
       ELSE \E r \in {"Ok", "Err"} :
              /\ closeResult' = [closeResult EXCEPT ![c] = r]
              /\ IF r = "Ok"
                 THEN /\ pc' = [pc EXCEPT ![c] = "nav_install"]
                      /\ UNCHANGED <<lock, result>>
                 ELSE Return(c, "RemoteError")
  /\ UNCHANGED <<outside, installed, current_page, opened, nextPage, op, elapsed, page, old,
                 acted, content, prevTimedOut>>

\* let _ = old_page.close().await;   (no timeout; the result is dropped)
NavClose(c) ==
  /\ pc[c] = "nav_close"
  /\ Issue(c)
  /\ closeIssued' = closeIssued \cup {old[c]}
  /\ \E hangs \in BOOLEAN :
       IF hangs
       THEN /\ pc' = [pc EXCEPT ![c] = "blocked"]
            /\ UNCHANGED closeResult
       ELSE /\ \E r \in {"Ok", "Err"} :
                 closeResult' = [closeResult EXCEPT ![c] = r]
            /\ pc' = [pc EXCEPT ![c] = "nav_install"]
  /\ UNCHANGED <<outside, installed, current_page, lock, opened, nextPage, op, elapsed, page, old,
                 acted, content, result, prevTimedOut>>

\* *guard = Some(page); ... Ok(content)   (the guard is dropped on return)
NavInstall(c) ==
  /\ pc[c] = "nav_install"
  /\ current_page' = page[c]
  /\ installed' = installed \cup {page[c]}
  /\ Return(c, "Ok")
  /\ UNCHANGED <<others, opened, closeIssued, nextPage, op, elapsed, calls, page, old,
                 acted, content, prevTimedOut>>

(* ---------------- methods that work on the current page ---------------- *)
PageMethods ==
  {"read", "click", "type", "scroll", "upload", "get_current_url",
   "take_screenshot"}

\* mutant: every method answers Ok without a page, as get_current_url does
NoPageResultEmpty(o) == "Ok"

\* what the `else` arm of `if let Some(page) = guard.as_ref()` returns
NoPageResult(o) == IF o = "get_current_url" THEN "Ok" ELSE "NoActivePage"

\* where the `Some(page)` arm starts
FirstStep(o) ==
  CASE o \in {"click", "upload"} -> "wait_find"
    [] o = "type" -> "focus"
    [] o = "scroll" -> "act"
    [] o = "read" -> "content"
    [] o = "get_current_url" -> "url"
    [] o = "take_screenshot" -> "screenshot"

\* mutant: the page is used without waiting for the lock to be free
AcquireUnguarded(c) ==
  /\ pc[c] = "lock"
  /\ op[c] \in {"read", "click", "type", "scroll", "upload",
                "get_current_url", "take_screenshot"}
  /\ IF current_page = NoPage
     THEN /\ pc' = [pc EXCEPT ![c] = "done"]
          /\ result' = [result EXCEPT
               ![c] = IF op[c] = "get_current_url" THEN "Ok"
                                                    ELSE "NoActivePage"]
          /\ UNCHANGED <<page, lock>>
     ELSE /\ lock' = c
          /\ page' = [page EXCEPT ![c] = current_page]
          /\ pc' = [pc EXCEPT ![c] =
               CASE op[c] \in {"click", "upload"} -> "wait_find"
                 [] op[c] = "type" -> "focus"
                 [] op[c] = "scroll" -> "act"
                 [] op[c] = "read" -> "content"
                 [] op[c] = "get_current_url" -> "url"
                 [] op[c] = "take_screenshot" -> "screenshot"]
          /\ UNCHANGED result
  /\ UNCHANGED <<others, current_page, opened, closeIssued, nextPage, installed, op,
                 elapsed, calls, old, acted, content, prevTimedOut>>

\* mutant: a page method takes the page out of the session (take for as_ref)
AcquireTaking(c) ==
  /\ pc[c] = "lock"
  /\ op[c] \in PageMethods
  /\ lock = NoCaller
  /\ current_page' = NoPage
  /\ IF current_page = NoPage
     THEN /\ Return(c, NoPageResult(op[c]))
          /\ UNCHANGED page
     ELSE /\ lock' = c
          /\ page' = [page EXCEPT ![c] = current_page]
          /\ pc' = [pc EXCEPT ![c] = FirstStep(op[c])]
          /\ UNCHANGED result
  /\ UNCHANGED <<others, installed, opened, closeIssued, nextPage, op, elapsed,
                 calls, old, acted, content, prevTimedOut>>

\* let guard = self.current_page.lock().await;
\* if let Some(page) = guard.as_ref() { page.clone() .. } else { Err(..) }
Acquire(c) ==
  /\ pc[c] = "lock"
  /\ op[c] \in PageMethods
  /\ lock = NoCaller
  /\ IF current_page = NoPage
     THEN /\ Return(c, NoPageResult(op[c]))
          /\ UNCHANGED page
     ELSE /\ lock' = c
          /\ page' = [page EXCEPT ![c] = current_page]
          /\ pc' = [pc EXCEPT ![c] = FirstStep(op[c])]
          /\ UNCHANGED result
  /\ UNCHANGED <<others, installed, current_page, opened, closeIssued, nextPage, op, elapsed,
                 calls, old, acted, content, prevTimedOut>>

\* mutant: the first failed poll is final, there is no 5 s wait
WaitFindNoDeadline(c, L) ==
  /\ pc[c] = "wait_find"
  /\ Issue(c)
  /\ \E hangs \in BOOLEAN, d \in L :
       IF Expires(c, hangs, d)
       THEN ReturnTimedOut(c)
       ELSE /\ Advance(c, d)
            /\ \E found \in BOOLEAN :
                 IF found
                 THEN /\ pc' = [pc EXCEPT ![c] = "act"]
                      /\ UNCHANGED <<result, lock>>
                 ELSE Return(c, "NotFound")
  /\ UNCHANGED <<others, installed, current_page, opened, closeIssued, nextPage, op, page, old,
                 acted, content, prevTimedOut>>

\* wait_for_selector: page.find_element(selector).await, then on Err the
\* check `start.elapsed() > wait_timeout`
WaitFind(c, L) ==
  /\ pc[c] = "wait_find"
  /\ Issue(c)
  /\ \E hangs \in BOOLEAN, d \in L :
       IF Expires(c, hangs, d)
       THEN ReturnTimedOut(c)
       ELSE /\ Advance(c, d)
            /\ \E found \in BOOLEAN :
                 IF found
                 THEN /\ pc' = [pc EXCEPT ![c] = "act"]
                      /\ UNCHANGED <<result, lock>>
                 ELSE IF elapsed[c] + d > WaitTimeoutMs
                      THEN Return(c, "NotFound")
                      ELSE /\ pc' = [pc EXCEPT ![c] = "wait_sleep"]
                           /\ UNCHANGED <<result, lock>>
  /\ UNCHANGED <<others, installed, current_page, opened, closeIssued, nextPage, op, page, old,
                 acted, content, prevTimedOut>>

\* wait_for_selector: sleep(Duration::from_millis(200)).await
WaitSleep(c) ==
  /\ pc[c] = "wait_sleep"
  /\ IF elapsed[c] + PollSleepMs > Budget(op[c])
     THEN ReturnTimedOut(c)
     ELSE /\ Advance(c, PollSleepMs)
          /\ pc' = [pc EXCEPT ![c] = "wait_find"]
          /\ UNCHANGED <<result, lock>>
  /\ UNCHANGED <<others, installed, current_page, opened, closeIssued, nextPage, op, calls, page,
                 old, acted, content, prevTimedOut>>

\* mutant: type first focuses an element of its own choice, a second remote
\* call, and then asks for the focused element
FocusSelecting(c, L) ==
  /\ pc[c] = "focus"
  /\ calls' = [calls EXCEPT ![c] = @ + 2]
  /\ \E hangs \in BOOLEAN, d \in L :
       IF Expires(c, hangs, d)
       THEN ReturnTimedOut(c)
       ELSE /\ Advance(c, d)
            /\ \E found \in BOOLEAN :
                 IF found
                 THEN /\ pc' = [pc EXCEPT ![c] = "act"]
                      /\ UNCHANGED <<result, lock>>
                 ELSE Return(c, "NoFocusedElement")
  /\ UNCHANGED <<others, installed, current_page, opened, closeIssued, nextPage, op, page, old,
                 acted, content, prevTimedOut>>

\* type_text: page_clone.find_element(":focus").await
Focus(c, L) ==
  /\ pc[c] = "focus"
  /\ Issue(c)
  /\ \E hangs \in BOOLEAN, d \in L :
       IF Expires(c, hangs, d)
       THEN ReturnTimedOut(c)
       ELSE /\ Advance(c, d)
            /\ \E found \in BOOLEAN :
                 IF found
                 THEN /\ pc' = [pc EXCEPT ![c] = "act"]
                      /\ UNCHANGED <<result, lock>>
                 ELSE Return(c, "NoFocusedElement")
  /\ UNCHANGED <<others, installed, current_page, opened, closeIssued, nextPage, op, page, old,
                 acted, content, prevTimedOut>>

\* mutant: an action the browser answered with an error is issued again
RemoteActionRetried(c, L) ==
  /\ pc[c] = "act"
  /\ Issue(c)
  /\ \E hangs \in BOOLEAN, d \in L :
       IF Expires(c, hangs, d)
       THEN /\ ReturnTimedOut(c)
            /\ \E landed \in BOOLEAN : acted' = [acted EXCEPT ![c] = landed]
       ELSE /\ Advance(c, d)
            /\ \E ok \in BOOLEAN :
                 IF ok
                 THEN /\ acted' = [acted EXCEPT ![c] = TRUE]
                      /\ pc' = [pc EXCEPT ![c] = "content"]
                      /\ UNCHANGED <<result, lock>>
                 ELSE /\ UNCHANGED <<pc, result, lock>>
                      /\ \E landed \in BOOLEAN :
                           acted' = [acted EXCEPT ![c] = landed]
  /\ UNCHANGED <<others, installed, current_page, opened, closeIssued, nextPage, op, page, old,
                 content, prevTimedOut>>

\* the method's one remote action, inside its timeout scope.  An action
\* that is abandoned or answers Err may or may not have reached the page.
RemoteAction(c, L) ==
  /\ pc[c] = "act"
  /\ Issue(c)
  /\ \E hangs \in BOOLEAN, d \in L :
       IF Expires(c, hangs, d)
       THEN /\ ReturnTimedOut(c)
            /\ \E landed \in BOOLEAN : acted' = [acted EXCEPT ![c] = landed]
       ELSE /\ Advance(c, d)
            /\ \E ok \in BOOLEAN :
                 IF ok
                 THEN /\ acted' = [acted EXCEPT ![c] = TRUE]
                      /\ pc' = [pc EXCEPT ![c] = "content"]
                      /\ UNCHANGED <<result, lock>>
                 ELSE /\ Return(c, "RemoteError")
                      /\ \E landed \in BOOLEAN :
                           acted' = [acted EXCEPT ![c] = landed]
  /\ UNCHANGED <<others, installed, current_page, opened, closeIssued, nextPage, op, page, old,
                 content, prevTimedOut>>

\* click_element: element.click().await?
ElementClick(c, L) == op[c] = "click" /\ RemoteAction(c, L)

\* type_text: element.type_str(&text).await?
TypeStr(c, L) == op[c] = "type" /\ RemoteAction(c, L)

\* upload_file: page_clone.execute(SetFileInputFilesParams ...).await?
SetFileInputFiles(c, L) == op[c] = "upload" /\ RemoteAction(c, L)

\* scroll_page: page_clone.evaluate("window.scrollBy(0, delta)").await?
ScrollBy(c, L) == op[c] = "scroll" /\ RemoteAction(c, L)

\* mutant: the content returned is the one the page showed before the action
SnapshotStale(c) == "before"

\* the content the page shows now: after this method's action or not
Snapshot(c) == IF acted[c] THEN "after" ELSE "before"

\* click/type/upload/scroll: let content = page_clone.content().await?;
\* the last call inside the timeout scope
ReadContent(c, L) ==
  /\ pc[c] = "content"
  /\ op[c] \in {"click", "type", "upload", "scroll"}
  /\ Issue(c)
  /\ \E hangs \in BOOLEAN, d \in L :
       IF Expires(c, hangs, d)
       THEN ReturnTimedOut(c) /\ UNCHANGED content
       ELSE /\ Advance(c, d)
            /\ \E ok \in BOOLEAN :
                 IF ok
                 THEN /\ content' = [content EXCEPT ![c] = Snapshot(c)]
                      /\ Return(c, "Ok")
                 ELSE Return(c, "RemoteError") /\ UNCHANGED content
  /\ UNCHANGED <<others, installed, current_page, opened, closeIssued, nextPage, op, page, old,
                 acted, prevTimedOut>>

\* one remote call under the lock and under no timeout: it returns when the
\* browser answers, and not before
Untimed(c, at) ==
  /\ pc[c] = at
  /\ Issue(c)
  /\ \E hangs \in BOOLEAN :
       IF hangs
       THEN /\ pc' = [pc EXCEPT ![c] = "blocked"]
            /\ UNCHANGED <<result, lock, content>>
       ELSE \E ok \in BOOLEAN :
              IF ok
              THEN /\ content' = [content EXCEPT ![c] = Snapshot(c)]
                   /\ Return(c, "Ok")
              ELSE Return(c, "RemoteError") /\ UNCHANGED content
  /\ UNCHANGED <<others, installed, current_page, opened, closeIssued, nextPage, op, elapsed,
                 page, old, acted, prevTimedOut>>

\* get_content: let content = page.content().await?;
GetContent(c) == op[c] = "read" /\ Untimed(c, "content")

\* get_current_url: page.url().await?
GetCurrentUrl(c) == op[c] = "get_current_url" /\ Untimed(c, "url")

\* take_screenshot: page.screenshot(..).await?
TakeScreenshot(c) == op[c] = "take_screenshot" /\ Untimed(c, "screenshot")

(* ---------------- reset ------------------------------------------------ *)
\* mutant: the page is closed but left in the session (as_ref for take)
ResetKeepsPage(c) ==
  /\ pc[c] = "lock"
  /\ op[c] = "reset"
  /\ lock = NoCaller
  /\ old' = [old EXCEPT ![c] = current_page]
  /\ current_page' = current_page
  /\ IF current_page = NoPage
     THEN Return(c, "Ok")
     ELSE /\ lock' = c
          /\ pc' = [pc EXCEPT ![c] = "reset_close"]
          /\ UNCHANGED result
  /\ UNCHANGED <<others, installed, opened, closeIssued, nextPage, op, elapsed, calls, page,
                 acted, content, prevTimedOut>>

\* let mut guard = self.current_page.lock().await; guard.take()
ResetTake(c) ==
  /\ pc[c] = "lock"
  /\ op[c] = "reset"
  /\ lock = NoCaller
  /\ old' = [old EXCEPT ![c] = current_page]
  /\ current_page' = NoPage
  /\ IF current_page = NoPage
     THEN Return(c, "Ok")
     ELSE /\ lock' = c
          /\ pc' = [pc EXCEPT ![c] = "reset_close"]
          /\ UNCHANGED result
  /\ UNCHANGED <<others, installed, opened, closeIssued, nextPage, op, elapsed, calls, page,
                 acted, content, prevTimedOut>>

\* let _ = page.close().await;  Ok(())   (no timeout; the result is dropped)
ResetClose(c) ==
  /\ pc[c] = "reset_close"
  /\ Issue(c)
  /\ closeIssued' = closeIssued \cup {old[c]}
  /\ \E hangs \in BOOLEAN :
       IF hangs
       THEN /\ pc' = [pc EXCEPT ![c] = "blocked"]
            /\ UNCHANGED <<result, lock, closeResult>>
       ELSE /\ \E r \in {"Ok", "Err"} :
                 closeResult' = [closeResult EXCEPT ![c] = r]
            /\ Return(c, "Ok")
  /\ UNCHANGED <<outside, installed, current_page, opened, nextPage, op, elapsed, page, old,
                 acted, content, prevTimedOut>>

(* ---------------- the controller --------------------------------------- *)
\* the methods a task calls: the agent's tools (agent.rs) and the commands
\* of the application (commands.rs)
Methods(c) ==
  IF c = "agent"
  THEN {"navigate", "read", "click", "type", "scroll", "upload"}
  ELSE {"navigate", "reset", "get_current_url", "take_screenshot"}

\* a step of navigate_and_get_content; L: the latencies of a remote call
\* that answers
NavigateStep(c, L) ==
  \/ NavNewPage(c, L) \/ NavWait(c, L) \/ NavContent(c, L)
  \/ NavLock(c) \/ NavClose(c) \/ NavInstall(c)

\* a step of click_element, type_text, upload_file, scroll_page, get_content
ToolStep(c, L) ==
  \/ Acquire(c)
  \/ WaitFind(c, L) \/ WaitSleep(c) \/ Focus(c, L)
  \/ ElementClick(c, L) \/ TypeStr(c, L) \/ SetFileInputFiles(c, L)
  \/ ScrollBy(c, L)
  \/ ReadContent(c, L)
  \/ GetContent(c)

\* a step of get_current_url, take_screenshot, reset
CommandStep(c) ==
  \/ Acquire(c)
  \/ GetCurrentUrl(c) \/ TakeScreenshot(c)
  \/ ResetTake(c) \/ ResetClose(c)

\* the agent runs one tool at a time (agent.rs)
AgentStep(L) ==
  \/ NavigateStep("agent", L)
  \/ ToolStep("agent", L)
  \/ Finish("agent")

\* the application runs one command at a time next to it (commands.rs)
UiStep(L) ==
  \/ NavigateStep("ui", L)
  \/ CommandStep("ui")
  \/ Finish("ui")

\* a step of the method task c is running
Step(c, L) == IF c = "agent" THEN AgentStep(L) ELSE UiStep(L)

\* the agent and the application call the controller concurrently; the
\* browser answers a call at once or never
Next ==
  \/ \E o \in Methods("agent") : Call("agent", o)
  \/ AgentStep({FastMs})
  \/ \E o \in Methods("ui") : Call("ui", o)
  \/ UiStep({FastMs})

Spec == Init /\ [][Next]_vars

\* the agent alone; the browser answers a call at once, slowly or never
TimedNext ==
  \/ \E o \in Methods("agent") : Call("agent", o)
  \/ AgentStep(Latencies)

TimedSpec == Init /\ [][TimedNext]_vars

(* ======================= properties ==================================== *)

\* pages that were made current and on which close was never called
ActivePages == installed \ closeIssued

\* C1: at every point at most one page that was ever made current is still
\* unclosed, the current page is that page, and a navigate that is about to
\* install its page has already called close on the page it took out
AtMostOneActivePage ==
  /\ Cardinality(ActivePages) <= 1
  /\ current_page # NoPage => current_page \in ActivePages
  /\ \A c \in Callers :
       (pc[c] = "nav_install" /\ old[c] # NoPage) => old[c] \in closeIssued

\* a second navigate has replaced the first page and returned
ReplacedPageWitness ==
  \E c \in Callers :
    /\ op[c] = "navigate" /\ pc[c] = "done" /\ result[c] = "Ok"
    /\ old[c] # NoPage
    /\ current_page = page[c]
    /\ old[c] \in closeIssued

\* positions at which a method is between taking the lock and returning
LockedPhase ==
  {"wait_find", "wait_sleep", "focus", "act", "content", "url", "screenshot",
   "reset_close", "nav_close", "nav_install", "blocked"}

\* positions of navigate's page load: new_page, wait_for_navigation, content
LoadPhase == {"nav_new_page", "nav_wait", "nav_content", "nav_lock"}

\* positions after a method has started its first remote call
RemotePhase == (LockedPhase \cup LoadPhase) \ {"nav_new_page"}

\* C2 as stated: every method, navigate included, holds the lock from its
\* first remote call until it returns, and nothing else runs under the lock
\* while a navigate is between its page load and its return
EveryOperationHoldsLock ==
  /\ \A c \in Callers : pc[c] \in RemotePhase => lock = c
  /\ \A c \in Callers :
       (op[c] = "navigate" /\ pc[c] \in RemotePhase) => lock \in {c, NoCaller}

\* C2 as amended: every method but navigate holds the lock from before its
\* first remote call until it returns, at most one task is in such a section,
\* and navigate holds the lock only while it swaps the page (take, close,
\* install): its page load runs without the lock
LockHeldExceptNavigateLoad ==
  /\ \A c \in Callers : pc[c] \in LockedPhase <=> lock = c
  /\ Cardinality({c \in Callers : pc[c] \in LockedPhase}) <= 1
  /\ \A c \in Callers : pc[c] \in LoadPhase => lock # c

\* the agent's click runs under the lock while a navigate of the
\* application is loading its page
ClickDuringNavigateLoad ==
  /\ op["agent"] = "click" /\ pc["agent"] = "act" /\ lock = "agent"
  /\ op["ui"] = "navigate" /\ pc["ui"] = "nav_content"

(* ---------------- scheduling -------------------------------------------- *)
\* the tokio runtime keeps polling a task that can make progress, a sleep
\* and a timeout fire, and tokio's Mutex is fair (FIFO): a task waiting for
\* the lock gets it when the lock keeps being released
FairSpec ==
  /\ Spec
  /\ \A c \in Callers : WF_vars(Step(c, {FastMs}))
  /\ \A c \in Callers : SF_vars(NavLock(c) \/ Acquire(c) \/ ResetTake(c))

\* C3: every method a task has called eventually returns to it
EveryOperationReturns ==
  \A c \in Callers : (pc[c] # "idle") ~> (pc[c] = "idle")

(* ---------------- timeouts ---------------------------------------------- *)
\* C4: a navigate returns the timeout error exactly at its 30 s budget,
\* without ever having taken the lock or a page out of the session; the
\* navigate that follows it finds the lock free once its load has completed
\* in time, and when it returns Ok its page is the current page and the
\* lock is free again
TimedOutNavigateLeavesNoLock ==
  \A c \in Callers :
    /\ (op[c] = "navigate" /\ pc[c] = "done" /\ result[c] = "TimedOut") =>
         /\ elapsed[c] = NavTimeoutMs
         /\ lock = NoCaller
         /\ old[c] = NoPage
    /\ (prevTimedOut[c] /\ op[c] = "navigate" /\ pc[c] = "nav_lock") =>
         /\ lock = NoCaller
         /\ elapsed[c] <= NavTimeoutMs
    /\ (prevTimedOut[c] /\ op[c] = "navigate" /\ pc[c] = "done"
          /\ result[c] = "Ok") =>
         /\ current_page = page[c]
         /\ page[c] # NoPage
         /\ lock = NoCaller

\* a navigate that followed a timed-out one has returned Ok after slow
\* remote calls, and its page is current
NavigateAfterTimeoutWitness ==
  \E c \in Callers :
    /\ prevTimedOut[c]
    /\ op[c] = "navigate" /\ pc[c] = "done" /\ result[c] = "Ok"
    /\ elapsed[c] > 0
    /\ current_page = page[c]

\* C5: click and upload return NotFound only when more than 5 s have
\* elapsed since polling started, after polls that were each followed by a
\* 200 ms sleep, and without having acted on the page
NotFoundOnlyAfterWait ==
  \A c \in Callers :
    /\ result[c] = "NotFound" =>
         /\ op[c] \in {"click", "upload"}
         /\ elapsed[c] > WaitTimeoutMs
         /\ elapsed[c] >= PollSleepMs * (calls[c] - 1)
         /\ ~acted[c]
         /\ content[c] = "none"
    /\ pc[c] = "wait_find" => elapsed[c] >= PollSleepMs * calls[c]

\* upload gave up on a selector that was absent on each of 27 quick polls
NotFoundWitness ==
  \E c \in Callers :
    /\ op[c] = "upload" /\ pc[c] = "done" /\ result[c] = "NotFound"
    /\ calls[c] = 27
    /\ elapsed[c] = 26 * PollSleepMs + 27 * FastMs

\* C6: the element is found before the action is issued, and the action is
\* issued before the content is read: a click or upload that returns Ok
\* returns content read after its own action took effect
ContentReadAfterAction ==
  \A c \in Callers :
    op[c] \in {"click", "upload"} =>
      /\ pc[c] \in {"wait_find", "wait_sleep", "act"} =>
           (~acted[c] /\ content[c] = "none")
      /\ pc[c] = "content" => (acted[c] /\ content[c] = "none")
      /\ (pc[c] = "done" /\ result[c] = "Ok") =>
           (acted[c] /\ content[c] = "after" /\ calls[c] >= 3)
      /\ content[c] # "none" => (pc[c] = "done" /\ result[c] = "Ok")

\* the selector appeared on the third poll, 400 ms after polling started,
\* and the click returned the content read after it
ClickAfterSelectorAppeared ==
  \E c \in Callers :
    /\ op[c] = "click" /\ pc[c] = "done" /\ result[c] = "Ok"
    /\ calls[c] = 5
    /\ elapsed[c] = 2 * PollSleepMs + 5 * FastMs
    /\ content[c] = "after"

\* C7: click, type and upload never run past 30 s and scroll never past
\* 10 s; the timeout error is returned exactly at the budget, and a method
\* that has returned does not hold the lock
TimeoutBudgetsHold ==
  \A c \in Callers :
    /\ op[c] \in {"click", "type", "upload"} => elapsed[c] <= ActionTimeoutMs
    /\ op[c] = "scroll" => elapsed[c] <= ScrollTimeoutMs
    /\ (op[c] \in {"click", "type", "upload"} /\ result[c] = "TimedOut") =>
         elapsed[c] = ActionTimeoutMs
    /\ (op[c] = "scroll" /\ result[c] = "TimedOut") =>
         elapsed[c] = ScrollTimeoutMs
    /\ result[c] # "none" => (pc[c] = "done" /\ lock # c)

\* a click timed out on its third remote call (find, click, content), and a
\* scroll can time out too
CombinedWorkTimedOut ==
  \E c \in Callers :
    /\ op[c] = "click" /\ pc[c] = "done" /\ result[c] = "TimedOut"
    /\ calls[c] = 3 /\ acted[c]
    /\ lock = NoCaller

(* ---------------- no active page ---------------------------------------- *)
NeedsPage == {"read", "click", "type", "scroll", "upload"}

\* C8: a read, click, type, scroll or upload that finds no current page
\* returns NoActivePage in that step, issues no remote call and leaves the
\* session as it was; with a page it does not return NoActivePage
NoActivePageIsInert ==
  [][\A c \in Callers :
       (pc[c] = "lock" /\ op[c] \in NeedsPage /\ pc'[c] # "lock") =>
         IF current_page = NoPage
         THEN /\ pc'[c] = "done" /\ result'[c] = "NoActivePage"
              /\ calls'[c] = 0
              /\ UNCHANGED <<current_page, lock, opened, closeIssued,
                             nextPage, installed>>
         ELSE result'[c] = "none" /\ pc'[c] # "done"]_vars

\* after a reset closed the page, a tool call returned NoActivePage
NoActivePageAfterReset ==
  \E c \in Callers :
    /\ op[c] \in NeedsPage /\ pc[c] = "done" /\ result[c] = "NoActivePage"
    /\ calls[c] = 0
    /\ installed # {} /\ installed = closeIssued
    /\ current_page = NoPage

(* ---------------- navigate failure, reset ------------------------------- *)
\* C9: the step in which a navigate returns an error (remote error or
\* timeout) changes neither current_page nor the set of closed pages, and
\* that navigate has never held the lock nor taken a page out
FailedNavigateKeepsPage ==
  [][\A c \in Callers :
       (op[c] = "navigate" /\ pc[c] # "done" /\ pc'[c] = "done"
          /\ result'[c] # "Ok") =>
         /\ result'[c] \in {"RemoteError", "TimedOut"}
         /\ pc[c] \in LoadPhase
         /\ UNCHANGED <<current_page, closeIssued, installed, lock>>
         /\ old[c] = NoPage /\ lock # c]_vars

\* a navigate has failed while the page of an earlier navigate is still
\* current and unclosed
FailedNavigateWitness ==
  \E c \in Callers :
    /\ op[c] = "navigate" /\ pc[c] = "done"
    /\ result[c] \in {"RemoteError", "TimedOut"}
    /\ current_page # NoPage
    /\ current_page \notin closeIssued

\* C10: when reset returns, it returns Ok and there is no current page; a
\* reset that finds no current page returns in the step that takes the lock,
\* issues no remote call and changes nothing in the session, so a second
\* reset leaves the state the first one left
ResetLeavesIdle ==
  [][\A c \in Callers :
       (op[c] = "reset" /\ pc[c] # "done" /\ pc'[c] = "done") =>
         /\ result'[c] = "Ok"
         /\ current_page' = NoPage
         /\ lock' = NoCaller
         /\ (pc[c] = "lock") =>
              /\ current_page = NoPage
              /\ calls'[c] = 0
              /\ UNCHANGED <<current_page, lock, opened, closeIssued,
                             nextPage, installed>>
         /\ (pc[c] = "reset_close") =>
              (old[c] # NoPage /\ old[c] \in closeIssued')]_vars

\* a reset returned from a session that an earlier reset had made idle
ResetOnIdleWitness ==
  \E c \in Callers :
    /\ op[c] = "reset" /\ pc[c] = "done" /\ result[c] = "Ok"
    /\ calls[c] = 0 /\ old[c] = NoPage
    /\ installed # {} /\ installed = closeIssued
    /\ current_page = NoPage

\* C11: the session starts without a page; the page that is current changes
\* only in three steps: a navigate that succeeded installs its page, a
\* navigate that succeeded takes the previous page out under the lock (and
\* gives the lock back only with its new page installed), and reset clears
\* it.  No step of click, type, scroll, upload, read (also the read behind
\* find_in_page), get_current_url or take_screenshot changes it.
SessionLifecycle ==
  /\ current_page = NoPage
  /\ [][ /\ current_page' # current_page =>
             \E c \in Callers :
               \/ /\ op[c] = "navigate" /\ pc[c] = "nav_install"
                  /\ current_page' = page[c] /\ page[c] # NoPage
                  /\ result'[c] = "Ok"
               \/ /\ op[c] = "navigate" /\ pc[c] = "nav_lock"
                  /\ current_page' = NoPage /\ lock' = c
               \/ /\ op[c] = "reset" /\ pc[c] = "lock"
                  /\ current_page' = NoPage
         /\ \A c \in Callers :
              (op[c] = "navigate" /\ lock = c /\ lock' # c) =>
                (current_page' = page[c] /\ page[c] # NoPage)
       ]_vars

\* Idle -> Active -> Active -> Idle: two navigates installed their pages,
\* page methods ran in between, and a reset has returned on a session that
\* is Idle again
LifecycleWitness ==
  /\ Cardinality(installed) = 2
  /\ current_page = NoPage
  /\ lock = NoCaller
  /\ op["ui"] = "reset" /\ pc["ui"] = "done"
  /\ op["agent"] = "click" /\ pc["agent"] = "done" /\ result["agent"] = "Ok"

(* ======================= the memory store (memory.rs) ================== *)
(* A String is a sequence of characters; a MemoryEntry is a record of      *)
(* content, tags and timestamp; Memory.entries is a sequence of entries.   *)

\* notes the store holds at most in one run
MaxEntries == 2
\* characters of a recall query at most
MaxQueryLen == 2

Alphabet == {"p", "s", "S", "h", "H", "x"}

\* all strings of at most n characters
RECURSIVE Strings(_)
Strings(n) ==
  IF n = 0 THEN {<<>>}
  ELSE LET shorter == Strings(n - 1)
       IN shorter \cup {Append(w, ch) : w \in shorter, ch \in Alphabet}

\* MemorizeArgs.note
Notes == {<<"p", "s">>, <<"S", "h", "x">>}
\* MemorizeArgs.tags: Option<Vec<String>>
TagOptions ==
  {None, Some(<<>>), Some(<<<<"s", "H", "p">>>>),
   Some(<<<<"x">>, <<"H", "s">>>>)}
\* RecallArgs.query: Option<String>
QueryOptions == {None} \cup {Some(q) : q \in Strings(MaxQueryLen)}
\* SystemTime::now() in seconds since the epoch; the wall clock is not
\* monotonic
Timestamps == {0, 1}

\* char::to_lowercase on the characters of Alphabet
Lower(ch) ==
  CASE ch = "S" -> "s"
    [] ch = "H" -> "h"
    [] OTHER -> ch

\* str::to_lowercase
to_lowercase(str) == [i \in 1..Len(str) |-> Lower(str[i])]

\* str::contains(&str): pat occurs in str as a contiguous run
contains(str, pat) ==
  \E i \in 0..(Len(str) - Len(pat)) : SubSeq(str, i + 1, i + Len(pat)) = pat

\* Option::unwrap_or_default
unwrap_or_default(opt) == IF opt = None THEN <<>> ELSE opt[1]

\* mutant: a note whose content is already stored is not stored again
addUnique(es, text, tags, timestamp) ==
  IF \E i \in 1..Len(es) : es[i].content = text
  THEN es
  ELSE Append(es, [content |-> text, tags |-> tags,
                   timestamp |-> timestamp])

\* Memory::add(content, tags), with `text` its content argument and
\* `timestamp` the clock reading it took
add(es, text, tags, timestamp) ==
  Append(es, [content |-> text, tags |-> tags, timestamp |-> timestamp])

\* Memory::get_all
get_all(es) == es

\* mutant: the query is compared without lower-casing either side
searchCaseSensitive(es, query) ==
  SelectSeq(es, LAMBDA entry :
    \/ contains(entry.content, query)
    \/ \E i \in 1..Len(entry.tags) : contains(entry.tags[i], query))

\* Memory::search
search(es, query) ==
  LET query_lower == to_lowercase(query)
  IN SelectSeq(es, LAMBDA entry :
       \/ contains(to_lowercase(entry.content), query_lower)
       \/ \E i \in 1..Len(entry.tags) :
            contains(to_lowercase(entry.tags[i]), query_lower))

\* mutant: clear drops the oldest note only
clearOldest(es) == IF es = <<>> THEN es ELSE Tail(es)

\* Memory::clear
clear(es) == <<>>

MemoryKinds == {"memorize", "recall", "get_memories", "clear_memories"}
\* memorize and recall are tools of the agent, get_memories and
\* clear_memories commands of the application
MemoryTools == {"memorize", "recall"}

\* positions at which a task is between lock() and the drop of the guard
InsideStore == {"mem_op", "mem_ret"}

\* mutant: the caller returns with the guard of the memory mutex still alive
MemReturnHolding(c, r) ==
  /\ mpc' = [mpc EXCEPT ![c] = "done"]
  /\ mres' = [mres EXCEPT ![c] = r]
  /\ UNCHANGED memLock

\* the tool or command ends: the MutexGuard, if any, is dropped
MemReturn(c, r) ==
  /\ mpc' = [mpc EXCEPT ![c] = "done"]
  /\ mres' = [mres EXCEPT ![c] = r]
  /\ memLock' = IF memLock = c THEN NoCaller ELSE memLock

\* the events and the ToolResult recorded are those of the agent run under
\* observation; a second run started by the application (run_agent) calls
\* the same tools
Observed(c) == c = "agent"

\* emit_event("tool_call", ..) at the head of a tool
EmitToolCall(c) ==
  IF Observed(c)
  THEN events' = <<"tool_call">> /\ toolResult' = "none"
  ELSE UNCHANGED toolVars

\* memorize calls about to push an entry
AddsInFlight ==
  Cardinality({x \in Callers : /\ mcall[x].kind = "memorize"
                               /\ mpc[x] \in {"mem_lock", "mem_op"}})

\* memorize up to GLOBAL_MEMORY.get(): emit_event("tool_call", ..)
MemorizeCall(c, N, T) ==
  /\ mpc[c] = "idle"
  /\ Len(entries) + AddsInFlight < MaxEntries
  /\ \E n \in N, t \in T :
       mcall' = [mcall EXCEPT ![c] =
                   [kind |-> "memorize", note |-> n, tags |-> t,
                    query |-> None]]
  /\ mpc' = [mpc EXCEPT ![c] = "mem_lock"]
  /\ EmitToolCall(c)
  /\ UNCHANGED <<browserVars, pureVars, dispatchVars, agentVars, sessionVars, entries, memLock, memInit, memPoisoned, log, wiped,
                 mres>>

\* recall up to GLOBAL_MEMORY.get(): emit_event("tool_call", ..)
RecallCall(c, Q) ==
  /\ mpc[c] = "idle"
  /\ \E q \in Q :
       mcall' = [mcall EXCEPT ![c] =
                   [kind |-> "recall", note |-> <<>>, tags |-> None,
                    query |-> q]]
  /\ mpc' = [mpc EXCEPT ![c] = "mem_lock"]
  /\ EmitToolCall(c)
  /\ UNCHANGED <<browserVars, pureVars, dispatchVars, agentVars, sessionVars, entries, memLock, memInit, memPoisoned, log, wiped,
                 mres>>

\* get_memories / clear_memories up to GLOBAL_MEMORY.get()
CommandCall(c, k) ==
  /\ mpc[c] = "idle"
  /\ k \in {"get_memories", "clear_memories"}
  /\ mcall' = [mcall EXCEPT ![c] =
                 [kind |-> k, note |-> <<>>, tags |-> None, query |-> None]]
  /\ mpc' = [mpc EXCEPT ![c] = "mem_lock"]
  /\ UNCHANGED <<browserVars, pureVars, dispatchVars, agentVars, sessionVars, toolVars, entries, memLock, memInit,
                 memPoisoned, log, wiped, mres>>

\* what a tool or a command returns when the store cannot be reached
Failed(c) ==
  /\ MemReturn(c, [status |-> "Err", route |-> "none", notes |-> <<>>])
  /\ toolResult' = IF mcall[c].kind \in MemoryTools /\ Observed(c)
                   THEN "error"
                   ELSE toolResult
  /\ UNCHANGED events

\* mutant: the store is entered without waiting for the Mutex
MemLockUnguarded(c) ==
  /\ mpc[c] = "mem_lock"
  /\ IF memInit /\ ~memPoisoned
     THEN /\ memLock' = c
          /\ mpc' = [mpc EXCEPT ![c] = "mem_op"]
          /\ UNCHANGED <<mres, toolVars>>
     ELSE Failed(c)
  /\ UNCHANGED <<browserVars, pureVars, dispatchVars, agentVars, sessionVars, entries, memInit, memPoisoned, log, wiped, mcall>>

\* if let Some(mem_lock) = GLOBAL_MEMORY.get() {
\*   if let Ok(mem) = mem_lock.lock() { .. } }  ..error("Failed to access memory")
MemLock(c) ==
  /\ mpc[c] = "mem_lock"
  /\ IF memInit /\ ~memPoisoned
     THEN /\ memLock = NoCaller
          /\ memLock' = c
          /\ mpc' = [mpc EXCEPT ![c] = "mem_op"]
          /\ UNCHANGED <<mres, toolVars>>
     ELSE Failed(c)
  /\ UNCHANGED <<browserVars, pureVars, dispatchVars, agentVars, sessionVars, entries, memInit, memPoisoned, log, wiped, mcall>>

\* memorize: mem.add(args.note.clone(), tags.clone())
MemAdd(c) ==
  /\ mpc[c] = "mem_op"
  /\ mcall[c].kind = "memorize"
  /\ \E timestamp \in Timestamps :
       LET tags == unwrap_or_default(mcall[c].tags)
       IN /\ entries' = add(entries, mcall[c].note, tags, timestamp)
          /\ log' = Append(log, [content |-> mcall[c].note, tags |-> tags,
                                 timestamp |-> timestamp])
  /\ wiped' = FALSE
  /\ mpc' = [mpc EXCEPT ![c] = "mem_ret"]
  /\ mres' = [mres EXCEPT ![c] =
                [status |-> "Ok", route |-> "add", notes |-> <<>>]]
  /\ UNCHANGED <<browserVars, pureVars, dispatchVars, agentVars, sessionVars, toolVars, memLock, memInit, memPoisoned, mcall>>

\* recall: `if let Some(q) = args.query { mem.search(&q) } else { mem.get_all() }`
RecallRoute(opt) == IF opt # None THEN "search" ELSE "get_all"

\* recall: let notes = ..
MemRecall(c) ==
  /\ mpc[c] = "mem_op"
  /\ mcall[c].kind = "recall"
  /\ LET route == RecallRoute(mcall[c].query)
     IN mres' = [mres EXCEPT ![c] =
          [status |-> "Ok", route |-> route,
           notes |-> IF route = "search"
                     THEN search(entries, mcall[c].query[1])
                     ELSE get_all(entries)]]
  /\ mpc' = [mpc EXCEPT ![c] = "mem_ret"]
  /\ UNCHANGED <<browserVars, pureVars, dispatchVars, agentVars, sessionVars, toolVars, entries, memLock, memInit,
                 memPoisoned, log, wiped, mcall>>

\* get_memories: let memories = mem.get_all();
MemGetAll(c) ==
  /\ mpc[c] = "mem_op"
  /\ mcall[c].kind = "get_memories"
  /\ mres' = [mres EXCEPT ![c] =
       [status |-> "Ok", route |-> "get_all", notes |-> get_all(entries)]]
  /\ mpc' = [mpc EXCEPT ![c] = "mem_ret"]
  /\ UNCHANGED <<browserVars, pureVars, dispatchVars, agentVars, sessionVars, toolVars, entries, memLock, memInit,
                 memPoisoned, log, wiped, mcall>>

\* clear_memories: mem.clear();
MemClear(c) ==
  /\ mpc[c] = "mem_op"
  /\ mcall[c].kind = "clear_memories"
  /\ entries' = clear(entries)
  /\ log' = <<>>
  /\ wiped' = (wiped \/ entries # <<>>)
  /\ mres' = [mres EXCEPT ![c] =
                [status |-> "Ok", route |-> "clear", notes |-> <<>>]]
  /\ mpc' = [mpc EXCEPT ![c] = "mem_ret"]
  /\ UNCHANGED <<browserVars, pureVars, dispatchVars, agentVars, sessionVars, toolVars, memLock, memInit, memPoisoned, mcall>>

\* emit_event("tool_result", ..); return ToolResult::success(..)   (tools)
\* return Ok(..)                                                   (commands)
MemSuccess(c) ==
  /\ mpc[c] = "mem_ret"
  /\ MemReturn(c, mres[c])
  /\ IF mcall[c].kind \in MemoryTools /\ Observed(c)
     THEN /\ events' = Append(events, "tool_result")
          /\ toolResult' = "success"
     ELSE UNCHANGED toolVars
  /\ UNCHANGED <<browserVars, pureVars, dispatchVars, agentVars, sessionVars, entries, memInit, memPoisoned, log, wiped, mcall>>

\* the caller has the result
MemFinish(c) ==
  /\ mpc[c] = "done"
  /\ mpc' = [mpc EXCEPT ![c] = "idle"]
  /\ mcall' = [mcall EXCEPT ![c] = NoCall]
  /\ mres' = [mres EXCEPT ![c] = NoResult]
  /\ UNCHANGED <<browserVars, pureVars, dispatchVars, agentVars, sessionVars, toolVars, entries, memLock, memInit,
                 memPoisoned, log, wiped>>

\* a step inside memorize or recall
MemToolStep(c) ==
  \/ MemLock(c)
  \/ MemAdd(c) \/ MemRecall(c)
  \/ MemSuccess(c)
  \/ MemFinish(c)

\* a step inside a memory tool or command
MemStep(c) ==
  \/ MemToolStep(c)
  \/ MemGetAll(c) \/ MemClear(c)

\* no memory tool or command is running
Quiet == \A c \in Callers : mpc[c] = "idle"

\* the store used by one caller at a time: any sequence of memorize,
\* recall, get_memories and clear_memories
StoreNext ==
  \/ Quiet /\ MemorizeCall("agent", Notes, TagOptions)
  \/ Quiet /\ RecallCall("agent", QueryOptions)
  \/ Quiet /\ \E k \in {"get_memories", "clear_memories"} :
                CommandCall("ui", k)
  \/ MemStep("agent")
  \/ MemStep("ui")

StoreSpec == Init /\ [][StoreNext]_vars

\* the tools and commands a task may call concurrently with the others
MemoryCall(c) ==
  \/ MemorizeCall(c, Notes, {None})
  \/ RecallCall(c, {None, Some(<<"s">>)})
  \/ \E k \in {"get_memories", "clear_memories"} : CommandCall(c, k)

\* the store under concurrent callers: two tasks, each calling any of the
\* tools and commands, interleaved step by step
SharedStoreNext ==
  \/ MemoryCall("agent")
  \/ MemStep("agent")
  \/ MemoryCall("ui")
  \/ MemStep("ui")

SharedStoreSpec == Init /\ [][SharedStoreNext]_vars

(* ---------------- properties of the memory store ----------------------- *)

\* the same letter, in either case
SameLetter(x, y) == x = y \/ {x, y} \in {{"s", "S"}, {"h", "H"}}

\* q occurs in str as a contiguous run of characters, case ignored
OccursIgnoringCase(q, str) ==
  \E i \in 1..(Len(str) + 1) :
    /\ i + Len(q) - 1 <= Len(str)
    /\ \A k \in 1..Len(q) : SameLetter(str[i + k - 1], q[k])

\* a task has its result from the store and the store has not changed since
HasResult(c) == mpc[c] \in {"mem_ret", "done"} /\ mres[c].status = "Ok"

\* C12: search(q) returns exactly the entries, in insertion order, whose
\* content or at least one tag contains q as a case-insensitive substring
SearchReturnsMatches ==
  \A c \in Callers :
    (HasResult(c) /\ mres[c].route = "search") =>
      LET q == mcall[c].query[1]
      IN mres[c].notes =
           SelectSeq(entries, LAMBDA e :
             \/ OccursIgnoringCase(q, e.content)
             \/ \E i \in 1..Len(e.tags) : OccursIgnoringCase(q, e.tags[i]))

\* of two stored notes, search found the one whose tag contains the query
\* in another case, and not the one that contains it nowhere
SearchByTagWitness ==
  /\ HasResult("agent") /\ mres["agent"].route = "search"
  /\ mcall["agent"].query = Some(<<"H", "p">>)
  /\ Len(entries) = 2
  /\ Len(mres["agent"].notes) = 1
  /\ mres["agent"].notes[1].tags = <<<<"s", "H", "p">>>>
  /\ ~contains(mres["agent"].notes[1].content, <<"h", "p">>)

\* C13: get_all returns exactly the notes added since the last clear, in
\* insertion order; once a clear has emptied the store, get_all and every
\* search return nothing until the next add
GetAllSinceClear ==
  \A c \in Callers :
    HasResult(c) =>
      /\ mres[c].route = "get_all" => mres[c].notes = log
      /\ (wiped /\ mres[c].route \in {"get_all", "search"}) =>
           mres[c].notes = <<>>

\* the store was cleared with notes in it, and a search for the empty
\* string, which any stored note would match, has returned nothing
SearchAfterClearWitness ==
  /\ wiped
  /\ HasResult("agent") /\ mres["agent"].route = "search"
  /\ mcall["agent"].query = Some(<<>>)
  /\ mres["agent"].notes = <<>>

\* task c is at the store operation of tool or command k
Performs(c, k) == mpc[c] = "mem_op" /\ mcall[c].kind = k

\* C14: between clears the store is append-only: a memorize appends exactly
\* one entry (its note, its tags, one timestamp) at the end and leaves
\* every entry before it as it was, also when the same note is already
\* stored; the store changes in no other step than an add or a clear
AppendOnlyBetweenClears ==
  [][ /\ entries' # entries =>
           \E c \in Callers :
             \/ Performs(c, "clear_memories") /\ entries' = <<>>
             \/ /\ Performs(c, "memorize")
                /\ Len(entries') = Len(entries) + 1
                /\ SubSeq(entries', 1, Len(entries)) = entries
                /\ entries'[Len(entries')].content = mcall[c].note
                /\ entries'[Len(entries')].tags =
                     unwrap_or_default(mcall[c].tags)
      /\ \A c \in Callers :
           (Performs(c, "memorize") /\ mpc'[c] = "mem_ret") =>
             Len(entries') = Len(entries) + 1
    ]_vars

\* the same note with the same tags was memorized twice and is stored twice
SameNoteTwiceWitness ==
  /\ Len(entries) = 2
  /\ entries[1].content = entries[2].content
  /\ entries[1].tags = entries[2].tags
  /\ entries[1].tags # <<>>
  /\ mpc["agent"] = "done" /\ mcall["agent"].kind = "memorize"

\* C15: recall without a query returns get_all, every entry in insertion
\* order; recall with a query that is present but empty does not go through
\* search("") and does not return every entry of a store that holds notes
RecallEmptyQueryIsNotSearch ==
  \A c \in Callers :
    (HasResult(c) /\ mcall[c].kind = "recall") =>
      /\ mcall[c].query = None =>
           (mres[c].route = "get_all" /\ mres[c].notes = entries)
      /\ mcall[c].query = Some(<<>>) =>
           /\ mres[c].route # "search"
           /\ entries # <<>> => mres[c].notes # entries

\* a well-formed entry: one note, its tags, one clock reading
Complete(e) ==
  /\ DOMAIN e = {"content", "tags", "timestamp"}
  /\ e.content \in Notes
  /\ e.tags \in {unwrap_or_default(t) : t \in TagOptions}
  /\ e.timestamp \in Timestamps

\* C16: under any interleaving of memorize, recall, get_memories and
\* clear_memories by two callers, at most one caller is inside the store,
\* the store holds exactly the notes added since the last clear, each
\* whole and in the order the adds took effect, and what a reader was
\* given is the store as it stands between two operations
AddsAreAtomic ==
  /\ \A c \in Callers : mpc[c] \in InsideStore => memLock = c
  /\ entries = log
  /\ \A i \in 1..Len(entries) : Complete(entries[i])
  /\ \A c \in Callers :
       (mpc[c] = "mem_ret" /\ mres[c].route = "get_all") =>
         mres[c].notes = log
  /\ \A c \in Callers :
       (mpc[c] = "mem_ret" /\ mres[c].route = "search") =>
         mres[c].notes = search(log, mcall[c].query[1])

\* two memorize calls were in flight together and both notes are stored,
\* each whole
ConcurrentAddsWitness ==
  /\ mcall["agent"].kind = "memorize" /\ mpc["agent"] = "done"
  /\ mcall["ui"].kind = "memorize" /\ mpc["ui"] = "mem_ret"
  /\ Len(entries) = 2
  /\ entries[1].content = mcall["agent"].note
  /\ entries[2].content = mcall["ui"].note
  /\ entries[1].content # entries[2].content

(* ======================= content shaping (agent.rs) ==================== *)
(* A rendered text is a sequence of runs; a run is `count` characters that *)
(* each take `width` bytes in UTF-8.  Runs next to each other differ in    *)
(* width.                                                                  *)

\* let limit = 15000;
limit == 15000

\* runs of a rendered text at most
MaxRuns == 2

\* bytes of one character in UTF-8
Widths == 1..4
\* characters of one run: around the limit
Counts == {1, limit - 1, limit, limit + 1}
Runs == [width : Widths, count : Counts]

\* the rendered texts of at most n runs
RECURSIVE Texts(_)
Texts(n) ==
  IF n = 0 THEN {<<>>}
  ELSE LET shorter == Texts(n - 1)
       IN shorter \cup
          {Append(q[1], q[2]) :
             q \in {x \in shorter \X Runs :
                      \/ x[1] = <<>>
                      \/ x[1][Len(x[1])].width # x[2].width}}

\* str::chars().count(): the characters of a text
RECURSIVE chars_count(_)
chars_count(text) ==
  IF text = <<>> THEN 0 ELSE Head(text).count + chars_count(Tail(text))

\* String::len(): the bytes of a text
RECURSIVE len(_)
len(text) ==
  IF text = <<>> THEN 0
  ELSE Head(text).width * Head(text).count + len(Tail(text))

\* md.chars().take(n).collect(): the first n characters
RECURSIVE chars_take(_, _)
chars_take(text, n) ==
  IF n = 0 \/ text = <<>> THEN <<>>
  ELSE LET run == Head(text)
       IN IF run.count <= n
          THEN <<run>> \o chars_take(Tail(text), n - run.count)
          ELSE <<[width |-> run.width, count |-> n]>>

\* process_content after the renderer: `marker` is the number printed in
\* "... (truncated, total length: {})", None when there is no marker
process_content(text) ==
  LET truncated == chars_take(text, limit)
  IN IF len(truncated) < len(text)
     THEN [status |-> "done", text |-> truncated, marker |-> Some(len(text))]
     ELSE [status |-> "done", text |-> text, marker |-> None]

\* the renderer has produced some text
ShapeInit ==
  /\ BrowserInit /\ MemoryInit /\ ToolInit /\ AgentIdle /\ SessionIdle
  /\ md \in Texts(MaxRuns)
  /\ shaped = NotShaped
  /\ ScrollIdle /\ SearchIdle

\* let content = process_content(html);
ProcessContent ==
  /\ shaped = NotShaped
  /\ shaped' = process_content(md)
  /\ UNCHANGED <<browserVars, memoryVars, toolVars, dispatchVars, agentVars, sessionVars, md,
                 direction, amount, delta, haystack, needle, matched>>

ShapeNext == ProcessContent

ShapeSpec == ShapeInit /\ [][ShapeNext]_vars

\* C17: with budget B = 15000 characters and L the number of characters of
\* the rendered text: if L <= B the output is the text itself, without a
\* marker; if L > B it is the first B characters followed by the marker
\* "... (truncated, total length: L)" with that same L
ShapingReportsLength ==
  shaped.status = "done" =>
    LET L == chars_count(md)
    IN IF L <= limit
       THEN shaped.text = md /\ shaped.marker = None
       ELSE shaped.text = chars_take(md, limit) /\ shaped.marker = Some(L)

(* ======================= the scroll delta (browser.rs) ================= *)

\* amount: Option<i32>
Int32Min == -2147483647 - 1
Int32Max == 2147483647
\* amount.unwrap_or(500)
DefaultAmount == 500

\* small amounts run from -MaxAmount to MaxAmount
MaxAmount == 3

Amounts ==
  (-MaxAmount..MaxAmount) \cup
    {200, 500, -500, Int32Min, Int32Min + 1, Int32Max}
AmountOptions == {None} \cup {Some(a) : a \in Amounts}
\* direction: &str; the schema does not restrict it
Directions == {"up", "down", "left", "Up", ""}

\* negation in i32 without overflow check: -2^31 wraps around to itself
wrapping_neg(val) == IF val = Int32Min THEN Int32Min ELSE -val

\* Option::unwrap_or
unwrap_or(opt, default) == IF opt = None THEN default ELSE opt[1]

Issued(v) == [status |-> "issued", value |-> v]
Panicked == [status |-> "panic", value |-> 0]

\* `-val` on i32: when the negation is not representable, a build with
\* overflow checks panics and a build without them wraps
Negations(val) ==
  IF val # Int32Min
  THEN {Issued(-val)}
  ELSE {Panicked, Issued(wrapping_neg(val))}

\* let val = amount.unwrap_or(500);
\* let delta = if direction == "up" { -val } else { val };
Deltas(dir, amt) ==
  LET val == unwrap_or(amt, DefaultAmount)
  IN IF dir = "up" THEN Negations(val) ELSE {Issued(val)}

\* scroll_page is called with a page active
ScrollInit ==
  /\ BrowserInit /\ MemoryInit /\ ToolInit /\ ShapeIdle /\ AgentIdle /\ SessionIdle
  /\ SearchIdle
  /\ direction \in Directions
  /\ amount \in AmountOptions
  /\ delta = NoDelta

\* scroll_page: window.scrollBy(0, delta)
ScrollDelta ==
  /\ delta = NoDelta
  /\ delta' \in Deltas(direction, amount)
  /\ UNCHANGED <<browserVars, memoryVars, toolVars, dispatchVars, agentVars, sessionVars, md,
                 shaped, direction, amount, haystack, needle, matched>>

ScrollNext == ScrollDelta

ScrollSpec == ScrollInit /\ [][ScrollNext]_vars

\* C18: scroll issues the delta +amount for direction down and -amount for
\* direction up, where amount is 500 when the argument is absent (-amount
\* is a 32-bit value for every amount but -2^31)
ScrollDeltaFollowsDirection ==
  delta # NoDelta =>
    LET a == IF amount = None THEN 500 ELSE amount[1]
    IN /\ direction = "down" => delta = Issued(a)
       /\ direction = "up" => (a # Int32Min /\ delta = Issued(-a))

\* C27: a scroll whose direction is neither "up" nor "down" does not move
\* the page: no scrollBy with a delta other than 0 is issued for it
OnlyUpAndDownScroll ==
  (delta # NoDelta /\ direction \notin {"up", "down"}) =>
    ~(delta.status = "issued" /\ delta.value # 0)

\* C35: for every amount, negative ones included, a scroll up issues no
\* delta above 0 and a scroll down issues no delta below 0
DirectionFixesSign ==
  (delta # NoDelta /\ delta.status = "issued") =>
    /\ direction = "up" => delta.value <= 0
    /\ direction = "down" => delta.value >= 0

\* C36: for every 32-bit amount given, scroll up issues a 32-bit delta that
\* is the negation of the amount and never overflows; the negation of
\* -2^31 is 2^31, which no 32-bit delta equals
NegationNeverOverflows ==
  (delta # NoDelta /\ direction = "up" /\ amount # None) =>
    /\ delta.status = "issued"
    /\ delta.value \in Int32Min..Int32Max
    /\ IF amount[1] = Int32Min THEN FALSE ELSE delta.value = -amount[1]

(* ======================= the agent's tools (agent.rs) ================== *)
(* A browser tool emits tool_call, fetches GLOBAL_BROWSER, awaits one      *)
(* method of the controller and shapes what it returned.  memorize and     *)
(* recall are the memory actions above, run by the agent.                  *)

BrowserTools ==
  {"navigate", "find_in_page", "click", "type_input", "scroll", "upload"}

\* the method of BrowserManager a tool awaits
ControllerMethod(t) ==
  CASE t = "find_in_page" -> "read"
    [] t = "type_input" -> "type"
    [] OTHER -> t

\* mutant: the tool reports success whatever the controller returned
ToolOutcomeUnchecked(t, r, p) ==
  [event |-> "tool_result", result |-> "success"]

\* match browser.method(..).await { Ok(html) => .. emit_event("tool_result")
\*   .. ToolResult::success, Err(e) => emit_event("error") .. ToolResult::error }
\* find_in_page also fails when search_content rejects the pattern
ToolOutcome(t, r, p) ==
  IF r = "Ok" /\ ~(t = "find_in_page" /\ p = "invalid")
  THEN [event |-> "tool_result", result |-> "success"]
  ELSE [event |-> "error", result |-> "error"]

\* the head of a browser tool: emit_event("tool_call", ..)
ToolCall(t) ==
  /\ tpc = "idle" /\ mpc["agent"] = "idle" /\ pc["agent"] = "idle"
  /\ t = "navigate" => nextPage <= MaxPages
  /\ tool' = t
  /\ pattern' \in IF t = "find_in_page" THEN {"valid", "invalid"}
                                         ELSE {"none"}
  /\ EmitToolCall("agent")
  /\ tpc' = "called"
  /\ UNCHANGED <<browserVars, memoryVars, pureVars, agentVars, sessionVars, browserInit,
                 converted, toolText>>

\* let browser = match GLOBAL_BROWSER.get() { Some(b) => b,
\*   None => return ToolResult::error("Browser not initialized") };
ToolGetBrowser ==
  /\ tpc = "called"
  /\ IF browserInit
     THEN tpc' = "invoke" /\ UNCHANGED toolVars
     ELSE tpc' = "returned" /\ toolResult' = "error" /\ UNCHANGED events
  /\ UNCHANGED <<browserVars, memoryVars, pureVars, agentVars, sessionVars, browserInit, tool,
                 pattern, converted, toolText>>

\* browser.navigate_and_get_content(..) / click_element(..) / .. is called
ToolInvoke ==
  /\ tpc = "invoke"
  /\ Call("agent", ControllerMethod(tool))

\* process_content: convert(&html, None).unwrap_or_else(|e|
\*   format!("Conversion failed: {}", e)), a text that is never empty;
\* find_in_page: convert(&html, None).unwrap_or_default(), the empty String
ToolText(t, conv) ==
  CASE conv = "Ok" -> "markdown"
    [] t = "find_in_page" -> "empty"
    [] OTHER -> "placeholder"

\* the match on what the controller returned; in the Ok(html) arm the html
\* is converted before the tool goes on
ToolCollect ==
  /\ tpc = "invoke"
  /\ pc["agent"] = "done"
  /\ IF result["agent"] = "Ok"
     THEN \E conv \in {"Ok", "Err"} :
            /\ converted' = conv
            /\ toolText' = ToolText(tool, conv)
     ELSE UNCHANGED <<converted, toolText>>
  /\ LET outcome == ToolOutcome(tool, result["agent"], pattern)
     IN /\ events' = Append(events, outcome.event)
        /\ toolResult' = outcome.result
  /\ tpc' = "returned"
  /\ UNCHANGED <<browserVars, memoryVars, pureVars, agentVars, sessionVars, browserInit, tool,
                 pattern>>

\* the controller's future is dropped
ToolDrop == tpc = "returned" /\ Finish("agent")

\* the ToolResult goes back to the agent loop
ToolReturn ==
  /\ tpc = "returned"
  /\ pc["agent"] = "idle"
  /\ tpc' = "idle"
  /\ tool' = "none"
  /\ pattern' = "none"
  /\ converted' = "none"
  /\ toolText' = "none"
  /\ UNCHANGED <<browserVars, memoryVars, pureVars, agentVars, sessionVars, toolVars, browserInit>>

\* the tools run in a process in which setup may not have set the globals,
\* or in which a panic under the memory lock has poisoned it
ToolsInit ==
  /\ BrowserInit /\ PureInit /\ StoreEmpty /\ NoToolRunning /\ AgentIdle /\ SessionIdle
  /\ browserInit \in BOOLEAN
  /\ memInit \in BOOLEAN
  /\ memPoisoned \in IF memInit THEN BOOLEAN ELSE {FALSE}

\* the agent runs one tool at a time
ToolsNext ==
  \/ \E t \in BrowserTools : ToolCall(t)
  \/ ToolGetBrowser
  \/ ToolInvoke
  \/ NavigateStep("agent", Latencies)
  \/ ToolStep("agent", Latencies)
  \/ ToolCollect
  \/ ToolDrop
  \/ ToolReturn
  \/ tpc = "idle" /\ MemorizeCall("agent", {<<"p", "s">>}, {None})
  \/ tpc = "idle" /\ RecallCall("agent", {None, Some(<<"s">>)})
  \/ MemToolStep("agent")

ToolsSpec == ToolsInit /\ [][ToolsNext]_vars

\* the running tool is a memory tool and has returned
MemoryToolReturned ==
  mpc["agent"] = "done" /\ mcall["agent"].kind \in MemoryTools

\* the running tool is a browser tool and has returned
BrowserToolReturned == tpc = "returned"

\* what the controller returned to the running browser tool is an error
ControllerFailed ==
  /\ pc["agent"] = "done"
  /\ result["agent"] \in {"NoActivePage", "NotFound", "TimedOut",
                          "NoFocusedElement", "RemoteError"}

\* C19: every failure reached from a tool -- the controller returning
\* NoActivePage, NotFound, TimedOut, NoFocusedElement or a remote error,
\* the matcher rejecting the pattern, GLOBAL_BROWSER or GLOBAL_MEMORY not
\* set, the memory lock poisoned -- leaves the tool returned with a
\* ToolResult error; the tool never ends in another way
ToolFailuresAreErrors ==
  /\ toolResult \in {"none", "success", "error"}
  /\ BrowserToolReturned =>
       /\ toolResult # "none"
       /\ ~browserInit => toolResult = "error"
       /\ ControllerFailed => toolResult = "error"
       /\ (tool = "find_in_page" /\ pattern = "invalid") =>
            toolResult = "error"
  /\ MemoryToolReturned =>
       /\ toolResult # "none"
       /\ (~memInit \/ memPoisoned) => toolResult = "error"
       /\ mres["agent"].status = "Err" => toolResult = "error"

\* after a tool returned an error (the memory was not set), click waited
\* for its selector in vain and returned the controller's error as a
\* ToolResult error
NotFoundIsToolErrorWitness ==
  /\ ~memInit
  /\ BrowserToolReturned /\ tool = "click"
  /\ pc["agent"] = "done" /\ result["agent"] = "NotFound"
  /\ toolResult = "error"
  /\ installed # {}

\* C20: every tool emits tool_call before its operation and, on every
\* return path, exactly one tool_result or error event after it
ToolEventsBracketOperation ==
  /\ (tpc # "idle" \/ mpc["agent"] # "idle") =>
       (events # <<>> /\ events[1] = "tool_call")
  /\ (BrowserToolReturned \/ MemoryToolReturned) =>
       events \in {<<"tool_call", "tool_result">>, <<"tool_call", "error">>}

\* C23: when the renderer fails on the html a browser tool got from the
\* controller, the tool goes on with the non-empty placeholder text and
\* returns a success payload
RendererFailureDegradesToPlaceholder ==
  (tpc = "returned" /\ converted = "Err") =>
    toolText = "placeholder" /\ toolResult = "success"

(* ======================= the controller: further properties =========== *)
\* C25: within one call a method issues its remote action once: the step
\* that issues new_page, click, type_str, the file-input command or scrollBy
\* is one remote call and leaves that position for good, whatever the
\* browser answered; a navigate adds at most one page to the browser; only
\* the selector poll goes back to a position it has been at
NoRemoteActionRetried ==
  [][\A c \in Callers :
       /\ (pc[c] = "act" /\ calls'[c] # calls[c]) =>
            (calls'[c] = calls[c] + 1 /\ pc'[c] \in {"content", "done"})
       /\ (pc[c] = "nav_new_page" /\ calls'[c] # calls[c]) =>
            /\ calls'[c] = calls[c] + 1
            /\ pc'[c] \in {"nav_wait", "done"}
            /\ Cardinality(opened' \ opened) <= 1
       /\ (pc[c] = "focus" /\ calls'[c] # calls[c]) =>
            pc'[c] \in {"act", "done"}
       /\ (pc'[c] = "act" /\ pc[c] # "act") =>
            (pc[c] \in {"lock", "wait_find", "focus"} /\ ~acted[c])
       /\ (pc'[c] = "nav_new_page" /\ pc[c] # "nav_new_page") =>
            pc[c] = "idle"
       /\ pc[c] \in {"content", "done"} =>
            pc'[c] \in {"content", "done", "idle", "blocked"}
       /\ pc[c] \in {"nav_wait", "nav_content", "nav_lock", "nav_close",
                     "nav_install"} =>
            pc'[c] \notin {"nav_new_page", "idle"}
       /\ opened' # opened =>
            \E n \in Callers :
              pc[n] = "nav_new_page" /\ calls'[n] # calls[n]]_vars

\* the browser answered a click with an error: the click returned that
\* error after two remote calls, the poll that found the element and the
\* one click
FailedClickWitness ==
  \E c \in Callers :
    /\ op[c] = "click" /\ pc[c] = "done" /\ result[c] = "RemoteError"
    /\ calls[c] = 2

\* C26: a type that returns NoFocusedElement had a page, made one remote
\* call, the query for the focused element, and sent nothing to the page;
\* no other method returns that error; type_str is issued only after that
\* one query has found the focused element
TypeNeedsFocusedElement ==
  \A c \in Callers :
    /\ result[c] = "NoFocusedElement" =>
         /\ op[c] = "type" /\ pc[c] = "done"
         /\ page[c] # NoPage
         /\ calls[c] = 1
         /\ ~acted[c]
         /\ content[c] = "none"
    /\ op[c] = "type" =>
         /\ pc[c] = "focus" => (calls[c] = 0 /\ ~acted[c])
         /\ pc[c] = "act" => (calls[c] = 1 /\ ~acted[c])
         /\ acted[c] => calls[c] >= 2

\* a type found a page and no focused element on it
NoFocusedElementWitness ==
  \E c \in Callers :
    /\ op[c] = "type" /\ pc[c] = "done"
    /\ result[c] = "NoFocusedElement"
    /\ current_page # NoPage /\ page[c] = current_page

\* the methods that work on the page of the session
PageBound == PageMethods \cup {"reset"}

\* task c is inside a page-bound method, between taking the lock and
\* returning
Acting(c) == op[c] \in PageBound /\ pc[c] \in LockedPhase

\* C28: at most one task is inside a page-bound method, and it holds the
\* lock; the page it works on stays the current page and close has not been
\* called on it; while a reset is closing the page it took out, nobody else
\* has closed that page; and no navigate is swapping the page meanwhile
PageOperationsExclusive ==
  /\ Cardinality({c \in Callers : Acting(c)}) <= 1
  /\ \A c \in Callers :
       Acting(c) =>
         /\ lock = c
         /\ op[c] # "reset" =>
              /\ page[c] # NoPage
              /\ page[c] = current_page
              /\ page[c] \notin closeIssued
         /\ (op[c] = "reset" /\ pc[c] = "reset_close") =>
              (old[c] # NoPage /\ old[c] \notin closeIssued)
         /\ \A n \in Callers \ {c} :
              pc[n] \notin {"nav_close", "nav_install", "blocked"}

\* a click is about to issue its action while a navigate that has loaded
\* its page waits for the lock
ClickWhileNavigateWaits ==
  \E c, n \in Callers :
    /\ op[c] = "click" /\ pc[c] = "act"
    /\ op[n] = "navigate" /\ pc[n] = "nav_lock"
    /\ page[n] # NoPage /\ page[c] = current_page

\* C29: a close that answers with an error changes nothing in what follows:
\* the navigate goes on to install its page, and returns Ok with the content
\* it read and its page current; the reset returns Ok in that step and
\* leaves no current page
CloseFailureNotSurfaced ==
  [][\A c \in Callers :
       /\ (pc[c] = "nav_close" /\ closeResult'[c] = "Err") =>
            (pc'[c] = "nav_install" /\ result'[c] = "none")
       /\ (pc[c] = "nav_install" /\ closeResult[c] = "Err"
             /\ pc'[c] # "nav_install") =>
            /\ pc'[c] = "done" /\ result'[c] = "Ok"
            /\ current_page' = page[c] /\ page[c] # NoPage
            /\ content'[c] = "before"
            /\ lock' = NoCaller
       /\ (pc[c] = "reset_close" /\ closeResult'[c] = "Err") =>
            /\ pc'[c] = "done" /\ result'[c] = "Ok"
            /\ current_page' = NoPage
            /\ lock' = NoCaller]_vars

\* a navigate whose close of the previous page failed has returned Ok with
\* its page current
NavigateAfterFailedClose ==
  \E c \in Callers :
    /\ op[c] = "navigate" /\ pc[c] = "done" /\ result[c] = "Ok"
    /\ closeResult[c] = "Err"
    /\ old[c] # NoPage
    /\ current_page = page[c]

\* a reset whose close failed has returned Ok and left no current page
ResetAfterFailedClose ==
  \E c \in Callers :
    /\ op[c] = "reset" /\ pc[c] = "done" /\ result[c] = "Ok"
    /\ closeResult[c] = "Err"
    /\ current_page = NoPage

\* a navigate has taken the previous page out and not yet installed its own
MidSwap(n) ==
  op[n] = "navigate" /\ pc[n] \in {"nav_close", "nav_install", "blocked"}

\* C30: the step in which get_current_url looks at the session is never
\* taken while a navigate is between taking the previous page out and
\* installing its own; what it sees is the current page, a page that was
\* installed and not closed, or a session that has no page and no navigate
\* in the middle of a swap
StatusReadSeesWholeSwap ==
  [][\A c \in Callers :
       (op[c] = "get_current_url" /\ pc[c] = "lock" /\ pc'[c] # "lock") =>
         /\ \A n \in Callers \ {c} : ~MidSwap(n)
         /\ IF current_page = NoPage
            THEN pc'[c] = "done" /\ result'[c] = "Ok"
            ELSE /\ pc'[c] = "url"
                 /\ page'[c] = current_page
                 /\ page'[c] \in installed \ closeIssued]_vars

\* get_current_url waits for the lock while a navigate that has taken the
\* previous page out is about to install its own
StatusReadWaitsForSwap ==
  \E c, n \in Callers :
    /\ op[c] = "get_current_url" /\ pc[c] = "lock"
    /\ op[n] = "navigate" /\ pc[n] = "nav_install"
    /\ old[n] # NoPage /\ current_page = NoPage
    /\ lock = n

(* ======================= searching a page (search.rs) ================= *)
MaxContentLen == 5
MaxPatternLen == 2

\* the characters of a page's text: a letter, a blank, the line terminator
TextAlphabet == {"a", " ", "\n"}

\* the characters of a query: a literal letter or blank, the wildcard, and
\* an opening parenthesis, which nothing in the query can close
PatternAlphabet == {"a", " ", ".", "("}

\* the strings over A of length at most n
StringsOver(A, n) == UNION {[1..k -> A] : k \in 0..n}

\* char::is_whitespace, on TextAlphabet
Whitespace == {" ", "\n"}

\* str::trim_start
RECURSIVE trim_start(_)
trim_start(line) ==
  IF line # <<>> /\ Head(line) \in Whitespace
  THEN trim_start(Tail(line))
  ELSE line

\* str::trim_end
RECURSIVE trim_end(_)
trim_end(line) ==
  IF line # <<>> /\ line[Len(line)] \in Whitespace
  THEN trim_end(SubSeq(line, 1, Len(line) - 1))
  ELSE line

\* str::trim
trim(line) == trim_end(trim_start(line))

\* RegexMatcher::new(query): the pattern is parsed; an unclosed group is a
\* syntax error
PatternValid(q) == \A k \in 1..Len(q) : q[k] # "("

\* the position up to which the first line of text extends, its terminator
\* included
LineEnd(text) ==
  IF \E k \in 1..Len(text) : text[k] = "\n"
  THEN CHOOSE k \in 1..Len(text) :
         text[k] = "\n" /\ \A j \in 1..(k - 1) : text[j] # "\n"
  ELSE Len(text)

\* the searcher hands the matcher a line without its terminator
without_terminator(line) ==
  IF line # <<>> /\ line[Len(line)] = "\n"
  THEN SubSeq(line, 1, Len(line) - 1)
  ELSE line

\* the pattern q matches the text at position i: a literal matches itself,
\* the wildcard any character
MatchesAt(q, text, i) ==
  /\ i + Len(q) - 1 <= Len(text)
  /\ \A k \in 1..Len(q) : q[k] = "." \/ q[k] = text[i + k - 1]

\* matcher.shortest_match(line): the pattern matches somewhere in the line
is_match(q, line) == \E i \in 1..(Len(line) + 1) : MatchesAt(q, line, i)

\* mutant: the sink pushes the line as the searcher handed it over
SinkRaw(matches, line) == Append(matches, line)

\* the sink: matches.push(line.trim().to_string()); Ok(true)
Sink(matches, line) == Append(matches, trim(line))

\* Searcher::new().search_reader(&matcher, Cursor::new(content), UTF8(sink)):
\* the text is read line by line and the sink is called with each line in
\* which the matcher finds a match
RECURSIVE search_reader(_, _, _)
search_reader(q, text, matches) ==
  IF text = <<>>
  THEN matches
  ELSE LET n == LineEnd(text)
           line == SubSeq(text, 1, n)
           rest == SubSeq(text, n + 1, Len(text))
       IN search_reader(q, rest,
            IF is_match(q, without_terminator(line))
            THEN Sink(matches, line)
            ELSE matches)

\* search_content(content, query)
search_content(text, q) ==
  IF PatternValid(q)
  THEN [status |-> "Ok", matches |-> search_reader(q, text, <<>>)]
  ELSE [status |-> "Err", matches |-> <<>>]

\* find_in_page has the page's text and the model's query
SearchInit ==
  /\ BrowserInit /\ MemoryInit /\ ToolInit /\ AgentIdle /\ SessionIdle
  /\ ShapeIdle /\ ScrollIdle
  /\ haystack \in StringsOver(TextAlphabet, MaxContentLen)
  /\ needle \in StringsOver(PatternAlphabet, MaxPatternLen)
  /\ matched = NotSearched

\* search_content(&content, &args.query)
SearchContent ==
  /\ matched = NotSearched
  /\ matched' = search_content(haystack, needle)
  /\ UNCHANGED <<browserVars, memoryVars, toolVars, dispatchVars, agentVars, sessionVars,
                 md, shaped, direction, amount, delta, haystack, needle>>

SearchNext == SearchContent

SearchSpec == SearchInit /\ [][SearchNext]_vars

\* the lines of a text, each without its terminator
RECURSIVE LinesOf(_)
LinesOf(text) ==
  IF text = <<>>
  THEN <<>>
  ELSE LET ends == {k \in 1..Len(text) : text[k] = "\n"}
       IN IF ends = {}
          THEN <<text>>
          ELSE LET k == CHOOSE e \in ends : \A x \in ends : e <= x
               IN <<SubSeq(text, 1, k - 1)>>
                    \o LinesOf(SubSeq(text, k + 1, Len(text)))

\* t is the line l without the whitespace at its two ends
IsTrimOf(t, l) ==
  /\ t = <<>> \/ (t[1] \notin Whitespace /\ t[Len(t)] \notin Whitespace)
  /\ \E i \in 1..(Len(l) + 1) :
       /\ t = SubSeq(l, i, i + Len(t) - 1)
       /\ i + Len(t) - 1 <= Len(l)
       /\ \A k \in 1..Len(l) :
            (k < i \/ k > i + Len(t) - 1) => l[k] \in Whitespace

\* the line contains a part that the query, read as a pattern, describes
ContainsMatch(q, l) ==
  \E i \in 1..(Len(l) + 1), j \in 0..Len(l) :
    /\ j - i + 1 = Len(q)
    /\ \A k \in 1..Len(q) : q[k] = "." \/ q[k] = SubSeq(l, i, j)[k]

\* C24: for a valid pattern search_content returns one text per line that
\* contains a match, in the order of the lines, each the line without the
\* whitespace at its ends; for an invalid pattern it returns an error and no
\* list
SearchReturnsTrimmedMatchingLines ==
  matched # NotSearched =>
    IF \E k \in 1..Len(needle) : needle[k] = "("
    THEN matched = [status |-> "Err", matches |-> <<>>]
    ELSE LET ls == LinesOf(haystack)
             hits == {i \in 1..Len(ls) : ContainsMatch(needle, ls[i])}
             nth(k) == CHOOSE i \in hits :
                         Cardinality({j \in hits : j < i}) = k - 1
         IN /\ matched.status = "Ok"
            /\ Len(matched.matches) = Cardinality(hits)
            /\ \A k \in 1..Len(matched.matches) :
                 IsTrimOf(matched.matches[k], ls[nth(k)])

\* a text of three lines was searched: the first and the last line match,
\* the first with blanks around its text
TrimmedMatchesWitness ==
  /\ haystack = <<" ", "a", "\n", "\n", "a">>
  /\ needle = <<"a">>
  /\ matched = [status |-> "Ok", matches |-> <<<<"a">>, <<"a">>>>]

(* ======================= the agent run (agent.rs) ====================== *)
\* the structured reports the model can emit (struct NexusReport)
Reports ==
  {[markdown_report |-> "report a", key_discoveries |-> <<"found a">>,
    sources |-> <<"site">>],
   [markdown_report |-> "report b", key_discoveries |-> <<>>,
    sources |-> <<>>]}

\* mutant: the run returns the report's first discovery, or nothing
SurfaceDiscoveries(r) ==
  IF r.key_discoveries = <<>> THEN "" ELSE r.key_discoveries[1]

\* Ok(report) => Ok(report.markdown_report)
Surface(r) == r.markdown_report

\* no tool of the agent is running
ToolsQuiet == tpc = "idle" /\ mpc["agent"] = "idle" /\ pc["agent"] = "idle"

\* run_agent_loop is called with a prompt and a Config
RunAgentLoop ==
  /\ rpc = "idle"
  /\ ToolsQuiet
  /\ rpc' = "setup"
  /\ UNCHANGED <<browserVars, memoryVars, toolVars, pureVars, dispatchVars, sessionVars,
                 workerRuns, report, runResult>>

\* mutant: the worker is built and run before the provider and the backend
\* are checked
CreateLlmAfterWorker ==
  /\ rpc = "setup"
  /\ workerRuns' = workerRuns + 1
  /\ \E supported \in BOOLEAN, created \in BOOLEAN :
       IF supported /\ created
       THEN /\ rpc' = "running"
            /\ UNCHANGED runResult
       ELSE /\ rpc' = "returned"
            /\ runResult' = [status |-> "Err",
                             text |-> IF supported THEN "llm not created"
                                                   ELSE "unsupported provider"]
  /\ UNCHANGED <<browserVars, memoryVars, toolVars, pureVars, dispatchVars, sessionVars,
                 report>>

\* match provider.as_str() { "anthropic" => { let llm =
\*   AnthropicLlm::from_env(model_name).map_err(..)?;
\*   execute_nexus_worker(llm, prompt).await } .. _ => Err("Unsupported ..") }
\* and in execute_nexus_worker: the worker is built with the eight tools and
\* worker.run(prompt) is called
CreateLlm ==
  /\ rpc = "setup"
  /\ \E supported \in BOOLEAN, created \in BOOLEAN :
       IF supported /\ created
       THEN /\ rpc' = "running"
            /\ workerRuns' = workerRuns + 1
            /\ UNCHANGED runResult
       ELSE /\ rpc' = "returned"
            /\ runResult' = [status |-> "Err",
                             text |-> IF supported THEN "llm not created"
                                                   ELSE "unsupported provider"]
            /\ UNCHANGED workerRuns
  /\ UNCHANGED <<browserVars, memoryVars, toolVars, pureVars, dispatchVars, sessionVars,
                 report>>

\* worker.run(prompt): the model answers with a tool call, and the worker
\* runs that tool.  The builder is given no limit on these calls.
WorkerCallsTool ==
  /\ rpc = "running"
  /\ ToolsQuiet
  /\ \/ \E t \in BrowserTools : ToolCall(t)
     \/ MemorizeCall("agent", {<<"p", "s">>}, {None})
     \/ RecallCall("agent", {None, Some(<<"s">>)})

\* the tool the worker called runs and hands its ToolResult back
WorkerRunsTool ==
  /\ rpc = "running"
  /\ \/ ToolGetBrowser \/ ToolInvoke
     \/ NavigateStep("agent", {FastMs}) \/ ToolStep("agent", {FastMs})
     \/ ToolCollect \/ ToolDrop \/ ToolReturn
     \/ MemToolStep("agent")

\* mutant: a failed model call makes the run start the worker again
WorkerFailsRetrying ==
  /\ rpc = "running"
  /\ ToolsQuiet
  /\ workerRuns < 3
  /\ workerRuns' = workerRuns + 1
  /\ UNCHANGED <<browserVars, memoryVars, toolVars, pureVars, dispatchVars, sessionVars,
                 rpc, report, runResult>>

\* worker.run(prompt) returned Err(e): Err(e) => { emit_event("error", ..);
\*   Err(e.to_string()) }
WorkerFails ==
  /\ rpc = "running"
  /\ ToolsQuiet
  /\ runResult' = [status |-> "Err", text |-> "worker failed"]
  /\ rpc' = "returned"
  /\ UNCHANGED <<browserVars, memoryVars, toolVars, pureVars, dispatchVars, sessionVars,
                 workerRuns, report>>

\* worker.run(prompt) returned Ok(report): Ok(report) => {
\*   emit_event("success", ..); Ok(report.markdown_report) }
WorkerReports ==
  /\ rpc = "running"
  /\ ToolsQuiet
  /\ \E r \in Reports :
       /\ report' = Some(r)
       /\ runResult' = [status |-> "Ok", text |-> Surface(r)]
  /\ rpc' = "returned"
  /\ UNCHANGED <<browserVars, memoryVars, toolVars, pureVars, dispatchVars, sessionVars,
                 workerRuns>>

\* the caller of run_agent_loop has the result
RunReturn ==
  /\ rpc = "returned"
  /\ rpc' = "idle"
  /\ workerRuns' = 0
  /\ report' = None
  /\ runResult' = NoOutcome
  /\ UNCHANGED <<browserVars, memoryVars, toolVars, pureVars, dispatchVars, sessionVars>>

\* one run of the agent after another
AgentNext ==
  \/ RunAgentLoop
  \/ CreateLlm
  \/ WorkerCallsTool
  \/ WorkerRunsTool
  \/ WorkerFails
  \/ WorkerReports
  \/ RunReturn

AgentSpec == Init /\ [][AgentNext]_vars

\* the executor keeps polling the future of the run: some step of the run
\* is taken whenever one is possible.  Which answer the model gives is not
\* a matter of scheduling.
AgentFairSpec == AgentSpec /\ WF_vars(AgentNext)

\* C21: a run that the model ended with a report returns Ok with that
\* report's markdown_report, a run returns Ok only so, a failed model call
\* ends the run with an error, and no run calls worker.run a second time
ReportOrErrorOnce ==
  /\ workerRuns <= 1
  /\ rpc = "returned" =>
       /\ report # None =>
            runResult = [status |-> "Ok", text |-> report[1].markdown_report]
       /\ runResult.status = "Ok" => report # None
       /\ report = None => runResult.status = "Err"
  /\ rpc = "running" => runResult = NoOutcome /\ workerRuns = 1

\* a run has returned the report the model emitted after its tools ran
ReportReturnedWitness ==
  /\ rpc = "returned"
  /\ report # None
  /\ runResult.status = "Ok"
  /\ toolResult = "success"

\* a run has ended with the error of the model call that failed
WorkerFailedWitness ==
  /\ rpc = "returned"
  /\ runResult = [status |-> "Err", text |-> "worker failed"]
  /\ workerRuns = 1

\* C22: every run of the agent ends: from the point worker.run is called
\* the run comes to return a report or an error (a tool call the browser
\* never answers is left aside)
EveryRunTerminates ==
  (rpc = "running") ~> (rpc # "running" \/ pc["agent"] = "blocked")

\* C31: a run that returns from its setup, because the provider is not
\* supported or the backend was not constructed, returns an error; it has
\* not called worker.run, no tool has run in it, and neither of its two
\* steps has changed the session, the memory store or the tool layer
SetupFailureIsInert ==
  [][/\ (rpc = "idle" /\ rpc' = "setup") =>
          UNCHANGED <<browserVars, memoryVars, toolVars, dispatchVars,
                      workerRuns>>
     /\ rpc = "setup" =>
          /\ ToolsQuiet /\ workerRuns = 0
          /\ UNCHANGED <<browserVars, memoryVars, toolVars, dispatchVars>>
          /\ rpc' = "returned" =>
               /\ runResult'.status = "Err"
               /\ runResult'.text \in {"unsupported provider",
                                       "llm not created"}
               /\ workerRuns' = 0
               /\ report' = None]_vars

\* a run on an unsupported provider has returned its error; the page and the
\* note of an earlier run are still there
UnsupportedProviderWitness ==
  /\ rpc = "returned"
  /\ runResult = [status |-> "Err", text |-> "unsupported provider"]
  /\ workerRuns = 0
  /\ current_page # NoPage
  /\ entries # <<>>

\* C32: in the step in which a navigate returns, the page that new_page
\* handed to it, if any, is the current page or has had close called on it
NoPageLeaked ==
  [][\A c \in Callers :
       (op[c] = "navigate" /\ pc[c] # "done" /\ pc'[c] = "done"
          /\ page[c] # NoPage) =>
         (page[c] = current_page' \/ page[c] \in closeIssued')]_vars

(* ======================= the flight recorder (tracing.rs) ============== *)
MaxTraces == 2
MaxSessions == 3

\* the levels of the trace macros used here
Levels == {"INFO", "ERROR"}

\* mutant: reset starts a new session and keeps the buffer
resetKeepingEvents(store, id) == [store EXCEPT !.session_id = id]

\* TraceStore::record: the event is stamped with self.session_id and pushed
record(store, level) ==
  [store EXCEPT !.events =
     Append(@, [session_id |-> store.session_id, level |-> level])]

\* TraceStore::get_events
get_events(store) == store.events

\* TraceStore::reset: self.events.clear(); self.session_id = Uuid::new_v4()
reset(store, id) == [session_id |-> id, events |-> <<>>]

\* TraceStore::count
count(store) == Len(store.events)

\* record_trace: if let Ok(mut guard) = store.try_lock() { .. }; a task that
\* finds the store taken goes on without its trace
RecordTrace(c) ==
  /\ traceLock # c
  /\ Len(traceStore.events) < MaxTraces
  /\ IF traceLock = NoCaller
     THEN /\ traceLock' = c
          /\ traceOp' = "record"
          /\ UNCHANGED dropped
     ELSE /\ dropped' = TRUE
          /\ UNCHANGED <<traceLock, traceOp>>
  /\ UNCHANGED <<browserVars, memoryVars, toolVars, pureVars, dispatchVars,
                 agentVars, spc, traceStore, nextUuid, recorded>>

\* record_trace: guard.record(level, target, span_name, message, fields);
\* the guard is dropped
TraceRecord(c) ==
  /\ traceLock = c
  /\ traceOp = "record"
  /\ \E level \in Levels : traceStore' = record(traceStore, level)
  /\ recorded' = recorded + 1
  /\ traceLock' = NoCaller
  /\ traceOp' = "none"
  /\ UNCHANGED <<browserVars, memoryVars, toolVars, pureVars, dispatchVars,
                 agentVars, spc, nextUuid, dropped>>

\* clear_traces: if let Ok(mut guard) = store.try_lock() { .. }
ClearTraces(c) ==
  /\ spc = "idle"
  /\ traceLock = NoCaller
  /\ nextUuid <= MaxSessions
  /\ traceLock' = c
  /\ traceOp' = "reset"
  /\ UNCHANGED <<browserVars, memoryVars, toolVars, pureVars, dispatchVars,
                 agentVars, spc, traceStore, nextUuid, recorded, dropped>>

\* clear_traces and reset_session: guard.reset(); the guard is dropped.
\* reset_session then returns Ok(())
TraceReset(c) ==
  /\ traceLock = c
  /\ traceOp = "reset"
  /\ traceStore' = reset(traceStore, nextUuid)
  /\ nextUuid' = nextUuid + 1
  /\ recorded' = 0
  /\ traceLock' = NoCaller
  /\ traceOp' = "none"
  /\ spc' = IF spc = "trace_reset" THEN "returned" ELSE spc
  /\ UNCHANGED <<browserVars, memoryVars, toolVars, pureVars, dispatchVars,
                 agentVars, dropped>>

\* the store used by the tasks' trace macros and by clear_traces
TraceNext ==
  \E c \in Callers :
    \/ RecordTrace(c)
    \/ TraceRecord(c)
    \/ ClearTraces(c)
    \/ TraceReset(c)

TraceSpec == Init /\ [][TraceNext]_vars

\* C37: every event in the store carries the store's session id, and
\* count() is the number of events get_events returns, which is the number
\* of records made since the last reset
EventsCarryCurrentSession ==
  /\ \A i \in 1..Len(get_events(traceStore)) :
       get_events(traceStore)[i].session_id = traceStore.session_id
  /\ count(traceStore) = Len(get_events(traceStore))
  /\ count(traceStore) = recorded

\* a trace recorded after a reset, in the second session
RecordedAfterResetWitness ==
  /\ traceStore.session_id = 2
  /\ count(traceStore) = 1
  /\ traceLock = NoCaller

(* ======================= reset_session (commands.rs) =================== *)
\* the application calls reset_session
ResetSessionCall ==
  /\ spc = "idle"
  /\ pc["ui"] = "idle" /\ mpc["ui"] = "idle" /\ traceLock # "ui"
  /\ nextUuid <= MaxSessions
  /\ spc' = "clear"
  /\ UNCHANGED <<browserVars, memoryVars, toolVars, pureVars, dispatchVars,
                 agentVars, traceLock, traceOp, traceStore, nextUuid,
                 recorded, dropped>>

\* if let Some(mem_lock) = GLOBAL_MEMORY.get() {
\*   if let Ok(mut mem) = mem_lock.lock() { mem.clear(); } }
ResetSessionClear ==
  /\ spc = "clear"
  /\ \/ CommandCall("ui", "clear_memories")
     \/ MemLock("ui") \/ MemClear("ui") \/ MemSuccess("ui")

\* the block above is left, whatever it did; browser.reset() comes next
ResetSessionCleared ==
  /\ spc = "clear"
  /\ mpc["ui"] = "done"
  /\ spc' = "reset"
  /\ UNCHANGED <<browserVars, memoryVars, toolVars, pureVars, dispatchVars,
                 agentVars, traceLock, traceOp, traceStore, nextUuid,
                 recorded, dropped>>

\* browser.reset().await.map_err(|e| e.to_string())?;
ResetSessionBrowser ==
  /\ spc = "reset"
  /\ \/ MemFinish("ui")
     \/ mpc["ui"] = "idle" /\ Call("ui", "reset")
     \/ ResetTake("ui") \/ ResetClose("ui")

\* if let Some(store) = TRACE_STORE.get() {
\*   if let Ok(mut guard) = store.try_lock() { guard.reset(); } }  Ok(())
ResetSessionTraces ==
  /\ spc = "reset"
  /\ pc["ui"] = "done" /\ result["ui"] = "Ok"
  /\ traceLock # "ui"
  /\ IF traceLock = NoCaller
     THEN /\ traceLock' = "ui"
          /\ traceOp' = "reset"
          /\ spc' = "trace_reset"
     ELSE /\ spc' = "returned"
          /\ UNCHANGED <<traceLock, traceOp>>
  /\ UNCHANGED <<browserVars, memoryVars, toolVars, pureVars, dispatchVars,
                 agentVars, traceStore, nextUuid, recorded, dropped>>

\* the application has the result of reset_session
ResetSessionReturn ==
  \/ spc \in {"trace_reset", "returned"} /\ Finish("ui")
  \/ /\ spc = "returned"
     /\ pc["ui"] = "idle"
     /\ spc' = "idle"
     /\ UNCHANGED <<browserVars, memoryVars, toolVars, pureVars,
                    dispatchVars, agentVars, traceLock, traceOp, traceStore,
                    nextUuid, recorded, dropped>>

\* a step of reset_session; the task does nothing else while it is inside
\* the trace store
ResetSession ==
  \/ ResetSessionCall
  \/ traceLock # "ui" /\ ResetSessionClear
  \/ traceLock # "ui" /\ ResetSessionCleared
  \/ traceLock # "ui" /\ ResetSessionBrowser
  \/ ResetSessionTraces
  \/ TraceReset("ui")
  \/ traceLock # "ui" /\ ResetSessionReturn

\* the running agent calls memorize
AgentMemorize ==
  /\ traceLock # "agent"
  /\ \/ /\ pc["agent"] = "idle"
        /\ MemorizeCall("agent", {<<"p", "s">>}, {None})
     \/ MemLock("agent") \/ MemAdd("agent") \/ MemSuccess("agent")
     \/ MemFinish("agent")

\* the running agent calls navigate
AgentNavigate ==
  /\ traceLock # "agent"
  /\ \/ mpc["agent"] = "idle" /\ Call("agent", "navigate")
     \/ NavigateStep("agent", {FastMs})
     \/ Finish("agent")

\* the running agent calls click; the page answers the find late enough
\* that the element is there or the wait is over
AgentClick ==
  /\ traceLock # "agent"
  /\ \/ mpc["agent"] = "idle" /\ Call("agent", "click")
     \/ Acquire("agent")
     \/ WaitFind("agent", {SlowMs})
     \/ ElementClick("agent", {FastMs}) \/ ReadContent("agent", {FastMs})
     \/ Finish("agent")

\* reset_session next to a running agent that memorizes and navigates
SessionNext ==
  \/ ResetSession
  \/ AgentMemorize
  \/ AgentNavigate

SessionSpec == Init /\ [][SessionNext]_vars

\* C33: in the step in which reset_session returns Ok, the memory store is
\* empty and the session has no current page
ResetSessionLeavesNothing ==
  [][(spc # "returned" /\ spc' = "returned") =>
       (entries' = <<>> /\ current_page' = NoPage)]_vars

\* the session once a first navigate has opened page 1 and made it current
LockInit ==
  /\ current_page = 1
  /\ lock = NoCaller
  /\ opened = {1}
  /\ closeIssued = {}
  /\ nextPage = 2
  /\ installed = {1}
  /\ op = [c \in Callers |-> "none"]
  /\ pc = [c \in Callers |-> "idle"]
  /\ elapsed = [c \in Callers |-> 0]
  /\ calls = [c \in Callers |-> 0]
  /\ page = [c \in Callers |-> NoPage]
  /\ old = [c \in Callers |-> NoPage]
  /\ acted = [c \in Callers |-> FALSE]
  /\ content = [c \in Callers |-> "none"]
  /\ result = [c \in Callers |-> "none"]
  /\ prevTimedOut = [c \in Callers |-> FALSE]
  /\ closeResult = [c \in Callers |-> "none"]
  /\ MemoryInit /\ ToolInit /\ PureInit /\ AgentIdle /\ SessionIdle

\* reset_session next to an agent that memorizes and clicks; both record
\* traces as they go
LockNext ==
  \/ ResetSession
  \/ AgentMemorize
  \/ AgentClick
  \/ \E c \in Callers : RecordTrace(c)
  \/ \E c \in Callers : TraceRecord(c)

LockSpec == LockInit /\ [][LockNext]_vars

\* the locks a task holds
LocksHeld(c) ==
  {l \in {"page", "memory", "trace"} :
     \/ l = "page" /\ lock = c
     \/ l = "memory" /\ memLock = c
     \/ l = "trace" /\ traceLock = c}

\* the lock a task waits for: current_page.lock().await, mem_lock.lock();
\* the trace store is only tried, inside record_trace the task waits for
\* nothing
WaitsFor(c) ==
  CASE traceLock = c -> "none"
    [] pc[c] \in {"lock", "nav_lock"} /\ lock # c -> "page"
    [] mpc[c] = "mem_lock" -> "memory"
    [] OTHER -> "none"

\* C34: a task that waits for a lock holds no lock, so no two tasks wait for
\* a lock the other one holds; a trace that finds the store taken is dropped
NoLockHeldWhileWaiting ==
  /\ \A c \in Callers : WaitsFor(c) # "none" => LocksHeld(c) = {}
  /\ \A c, d \in Callers :
       ~(/\ c # d
         /\ WaitsFor(c) \in LocksHeld(d)
         /\ WaitsFor(d) \in LocksHeld(c))

\* the agent is inside click under the page lock and inside the trace
\* store, reset_session waits for the page lock and has lost a trace
TraceDroppedWhileWaitingWitness ==
  /\ dropped
  /\ op["agent"] = "click" /\ LocksHeld("agent") = {"page", "trace"}
  /\ spc = "reset" /\ WaitsFor("ui") = "page"

====
